---- MODULE Spec2Model ----
(***************************************************************************)
(* Verification model of crazycoder44/web-crawler: the crawl engine        *)
(* (crawler/runner.py, src/crawler/client.py), the record store            *)
(* (src/crawler/store.py) and the change detection / notification path     *)
(* (src/scheduler/fingerprinting.py, src/scheduler/change_tracker.py,      *)
(* scheduler/reporting.py, src/scheduler/notifications.py).                *)
(*                                                                         *)
(* All field values are integers: None is -1, prices are whole currency    *)
(* units, every other field value is an abstract identifier.               *)
(***************************************************************************)
EXTENDS Integers, Sequences, FiniteSets, TLC

VARIABLES
  \* ---- MongoStore (src/crawler/store.py) ----
  books,          \* db.books: sequence of documents in insertion order
  changes,        \* db.book_changes: sequence of change documents
  now,            \* the last instant datetime.utcnow() returned
  changing_field, \* the field the site changes between versions of a page
  unique_source_url, \* TRUE when init_indexes created the unique index
  upw,            \* the coroutines running upsert_book, one per worker
  opCount,        \* number of upsert_book calls started so far
  \* ---- the site being crawled and the crawler's configuration ----
  site,           \* which fixture site is served
  behav,          \* how each url of the site answers a request
  max_concurrency,     \* settings.max_concurrency
  checkpoint_interval, \* BooksCrawler(checkpoint_interval=...)
  \* ---- BooksCrawler (crawler/runner.py) ----
  seen_urls, failed_urls, books_processed,
  sem,            \* number of holders of self.semaphore
  tasks,          \* the crawl_book_page tasks of the page being gathered
  runPc,          \* position of run() / crawl_category_page()
  runAttempt,     \* attempts of the fetch the run coroutine is in
  catIdx,         \* index of the category being processed
  curPage,        \* url of the category page being processed
  all_book_ids,   \* ids returned by the item tasks so far
  checkpoint,     \* db.checkpoints, the value of the 'page' checkpoint
  requests,       \* HTTP requests issued so far, per url
  fetchCalls,     \* calls of CrawlerClient.fetch so far, per url
  stats,          \* the dict run() returns
  resume_url,     \* the resume_url argument of run(), None for a fresh run
  ck_issued,      \* history: the set_checkpoint calls, in the order made
  ck_written,     \* history: the set_checkpoint calls that ended, in that order
  depth,          \* the nesting of the crawl_category_page calls in progress
  \* ---- change detection and notification (scheduler) ----
  change_records,     \* db.change_records, written by ChangeReporter
  notifications,      \* the e-mails NotificationManager has sent
  significant_log,    \* the "Significant changes detected" log lines
  reporter_has_store, \* TRUE when a store was attached to the ChangeReporter
  det,                \* the last detection operation and what it did
  detCount,           \* number of detection operations so far
  \* ---- db.checkpoints (src/crawler/store.py) ----
  checkpoints,        \* the checkpoint documents, in insertion order
  unique_checkpoint_type, \* TRUE when the index of init_indexes exists
  ckw,                \* the set_checkpoint calls in flight, one per worker task
  ckWritten,          \* the <<type, value>> pairs set_checkpoint was called with
  ckCount,            \* number of set_checkpoint calls so far
  ckRead,             \* what get_last_checkpoint last returned, per type
  run_calls,          \* history: the record_scheduler_run calls and how they ended
  \* ---- consolidate_changes (src/crawler/store.py) ----
  cons,               \* the consolidate_changes call: position, cursor, count
  consCount,          \* number of consolidate_changes calls so far
  \* ---- BookScheduler (src/scheduler/scheduler.py) ----
  clock,              \* wall-clock time, in 5-minute ticks since midnight
  schedUp,            \* TRUE while the scheduler process is running
  next_run_time,      \* per job: the next fire time the scheduler holds
  instances,          \* per job: number of instances being executed
  execs,              \* the executions started: job, run_time, start time
  dropped,            \* <<job, run_time>> skipped because of max_instances
  missed,             \* <<job, run_time>> skipped because of the misfire grace
  restarts,           \* number of restarts of the process so far
  \* ---- SchedulerJobs (scheduler/jobs.py) ----
  job_runs,           \* the JobRun entries record_scheduler_run inserted
  jobInv,             \* per job type: the invocation in its slot
  error_alerts,       \* the calls of notify_error
  invCount,           \* number of invocations started so far
  \* ---- CrawlerClient's rate limiting (crawler/client.py) ----
  loop_time,          \* asyncio.get_event_loop().time(), in seconds
  clients,            \* per fetching task: its CrawlerClient and its position
  dispatched,         \* the loop times at which client.get was called
  clientCount,        \* number of CrawlerClient objects created so far
  \* ---- SchedulerJobs.health_check (scheduler/jobs.py) ----
  health,             \* the health check in its slot: position and result
  hcCount,            \* number of health checks started so far
  \* ---- run_scheduler and BookScheduler.start/shutdown ----
  service,            \* the position of run_scheduler
  timerOn,            \* TRUE while the scheduler's wake-up timer is set
  jobTasks,           \* per job: the asyncio task the executor created
  jobStarts,          \* number of job tasks created so far
  shutdown_called,    \* TRUE once BookScheduler.shutdown was called
  db_init,            \* how init_scheduler_db ended
  \* ---- RateLimitMiddleware (api/middleware/rate_limiter.py) ----
  utcnow,             \* datetime.utcnow(), in seconds
  rl_requests,        \* RateLimitStore._requests: per key identifier, the deque
  rl_log,             \* the dispatches so far: key, time, count read, answer
  rl_handling         \* number of requests inside call_next

storeVars == <<changing_field, unique_source_url, upw>>

crawlVars ==
  <<site, behav, max_concurrency, checkpoint_interval, seen_urls, failed_urls,
    books_processed, sem, tasks, runPc, runAttempt, catIdx, curPage,
    all_book_ids, checkpoint, requests, fetchCalls, stats, resume_url,
    ck_issued, ck_written, depth>>

detectVars ==
  <<change_records, notifications, significant_log, reporter_has_store, det,
    detCount>>

ckVars ==
  <<checkpoints, unique_checkpoint_type, ckw, ckWritten, ckCount, ckRead,
    run_calls>>

\* the variables of the checkpoint collection and of the scheduler
consVars == <<cons, consCount>>

schedVars ==
  <<clock, schedUp, next_run_time, instances, execs, dropped, missed, restarts>>

jobVars == <<job_runs, jobInv, error_alerts, invCount>>

politeVars == <<loop_time, clients, dispatched, clientCount>>

\* the variable groups of the later sections
healthVars == <<health, hcCount>>

serviceVars == <<service, timerOn, jobTasks, jobStarts, shutdown_called, db_init>>

rateVars == <<utcnow, rl_requests, rl_log, rl_handling>>

moreVars == <<politeVars, healthVars, serviceVars, rateVars>>

otherVars == <<ckVars, consVars, schedVars, jobVars, moreVars>>

vars == <<books, changes, now, opCount, storeVars, crawlVars, detectVars, otherVars>>

(***************************************************************************)
(* Bounds                                                                  *)
(***************************************************************************)
NumStoreUrls == 1
MaxUpserts == 2

StoreUrls == 1..NumStoreUrls

\* the two entry points that upsert into one database: the scheduler's
\* full_site_scan job and a crawl started by run_crawler.py
Upserters == {"scheduler", "cli"}

None == -1
NoDoc == [_id |-> None]

(***************************************************************************)
(* Book model (crawler/models.py)                                          *)
(***************************************************************************)
TrackedFields ==
  {"title", "description", "category", "price_incl_tax", "price_excl_tax",
   "availability", "num_reviews", "rating"}

\* keys of Book.model_dump(); image_url, status, http_status and id never
\* vary between two crawls of one page in this model
BookKeys ==
  TrackedFields \cup
  {"source_url", "raw_html_hash", "raw_html_snapshot_path", "crawl_timestamp",
   "response_time", "status", "http_status", "image_url", "id"}

InStock == 1
OutOfStock == 0

\* the page of url u as first published
BaseBook(u) ==
  [title |-> 1, description |-> 1, category |-> 1,
   price_incl_tax |-> 100, price_excl_tax |-> 100,
   availability |-> InStock, num_reviews |-> 1, rating |-> 1,
   source_url |-> u, raw_html_hash |-> None, raw_html_snapshot_path |-> None,
   crawl_timestamp |-> 0, response_time |-> 1, status |-> 1,
   http_status |-> 200, image_url |-> 1, id |-> None]

\* the alternative value a later version of the page shows for field f
AltValue(f) ==
  CASE f = "price_incl_tax" -> 150
    [] f = "price_excl_tax" -> 104
    [] f = "availability" -> OutOfStock
    [] OTHER -> 2

\* page versions the site can serve for one url: the first version, a version
\* whose markup differs but no field, a version that is served more slowly,
\* or a version with field f changed
Variants(f) == {"none", "layout", "slow", f}

\* the Book crawl_book_page builds from the page version v of url u
PageBook(u, v) ==
  LET b == BaseBook(u)
  IN IF v \in TrackedFields THEN [b EXCEPT ![v] = AltValue(v)]
     ELSE IF v = "slow" THEN [b EXCEPT !["response_time"] = 2]
     ELSE b

\* the raw html of the page version v of url u (an abstract content id)
VariantIndex(v) ==
  CASE v \in {"none", "slow"} -> 0 [] v = "layout" -> 1 [] v = "title" -> 2
    [] v = "description" -> 3 [] v = "category" -> 4
    [] v = "price_incl_tax" -> 5 [] v = "price_excl_tax" -> 6
    [] v = "availability" -> 7 [] v = "num_reviews" -> 8 [] v = "rating" -> 9

PageHtml(u, v) == 10 * u + VariantIndex(v)

(***************************************************************************)
(* MongoStore (src/crawler/store.py)                                       *)
(***************************************************************************)
\* settings.store_html_in_gridfs
StoreHtmlInGridfs == TRUE

\* compute_html_hash: SHA-256 of the html, injective on the modelled pages
compute_html_hash(html) == 1000 + html

\* the ObjectId the server gives the n-th uploaded GridFS file, and the one
\* it gives a document inserted into bs: fresh on every call
FileId(n) == 100 + n

ObjectId(bs) == Len(bs) + 1

\* store_html_snapshot: the id of the uploaded GridFS file, or the hash
store_html_snapshot(html, fileId) ==
  IF StoreHtmlInGridfs THEN fileId ELSE compute_html_hash(html)

\* get_book_by_url: find_one returns the first matching document
MatchingDocs(bs, u) == {i \in 1..Len(bs) : bs[i].source_url = u}

get_book_by_url(bs, u) ==
  IF MatchingDocs(bs, u) = {} THEN NoDoc
  ELSE bs[CHOOSE i \in MatchingDocs(bs, u) : \A j \in MatchingDocs(bs, u) : i <= j]

\* lines 93-97: the document upsert_book writes for a book
BookDict(book, html, fileId, t) ==
  [book EXCEPT !["raw_html_hash"] = compute_html_hash(html),
               !["raw_html_snapshot_path"] = store_html_snapshot(html, fileId),
               !["crawl_timestamp"] = t]

\* lines 104-108: every key of book_dict whose stored value differs
ChangedKeys(existing, book_dict) ==
  {k \in BookKeys : k \in DOMAIN existing /\ existing[k] # book_dict[k]}

\* DetectChanges with the stored and the new value exchanged
DetectChanges_Swapped(existing, book_dict) ==
  [k \in ChangedKeys(existing, book_dict) |->
     [old |-> book_dict[k], new |-> existing[k]]]

DetectChanges(existing, book_dict) ==
  [k \in ChangedKeys(existing, book_dict) |->
     [old |-> existing[k], new |-> book_dict[k]]]

\* find_one_and_update({'_id': id}, {'$set': book_dict})
SetDoc(doc, book_dict) ==
  [k \in DOMAIN doc |-> IF k \in BookKeys THEN book_dict[k] ELSE doc[k]]

find_one_and_update(bs, id, book_dict) ==
  [i \in 1..Len(bs) |-> IF bs[i]._id = id THEN SetDoc(bs[i], book_dict) ELSE bs[i]]

\* insert_one(book_dict): the server adds the _id
NewDoc(book_dict, id) ==
  [k \in BookKeys \cup {"_id"} |-> IF k = "_id" THEN id ELSE book_dict[k]]

\* record_change, lines 150-155
ChangeDoc(book_id, chg, t) ==
  [book_id |-> book_id, changes |-> chg, timestamp |-> t, change_type |-> "update"]

IdleWorker ==
  [pc |-> "idle", book_dict |-> NoDoc, existing |-> NoDoc, html |-> 0,
   chg |-> [k \in {} |-> 0], emitted |-> 0, result |-> None]

(***************************************************************************)
(* The site: an index page listing the categories, category pages listing  *)
(* item urls and a next-page link (extract_categories,                     *)
(* extract_books_from_list, get_next_page_url of src/crawler/parsers.py    *)
(* applied to the fixture's pages).  Item urls are 1..6, the index is 100, *)
(* category pages are 101..103; 0 is "no next page".                       *)
(***************************************************************************)
IndexUrl == 100

Sites == {"two_by_three", "shared_links"}

\* sites whose next-page links come back: the first category page links to
\* itself, or to a second page that links to the first
CyclicSites == {"self_loop", "two_cycle"}

\* extract_categories(index html): (name, url) pairs
extract_categories(st) == << [name |-> 1, url |-> 101], [name |-> 2, url |-> 102] >>

\* extract_books_from_list(page html): item urls in page order
extract_books_from_list(st, p) ==
  IF st = "two_by_three"
  THEN CASE p = 101 -> <<1, 2, 3>> [] p = 102 -> <<4, 5, 6>> [] OTHER -> << >>
  ELSE IF st = "shared_links"
  THEN CASE p = 101 -> <<1, 2, 2>> [] p = 103 -> <<1, 3>>
         [] p = 102 -> <<2, 3, 4>> [] OTHER -> << >>
  ELSE IF st = "self_loop"
  THEN CASE p = 101 -> <<1, 2>> [] p = 102 -> <<3>> [] OTHER -> << >>
  ELSE CASE p = 101 -> <<1>> [] p = 103 -> <<2>> [] p = 102 -> <<3>>
         [] OTHER -> << >>

\* get_next_page_url(page html, page url)
get_next_page_url(st, p) ==
  CASE st \in {"shared_links", "two_cycle"} /\ p = 101 -> 103
    [] st = "two_cycle" /\ p = 103 -> 101
    [] st = "self_loop" /\ p = 101 -> 101
    [] OTHER -> 0

PageUrls(st) ==
  IF st \in {"two_by_three", "self_loop"} THEN {101, 102} ELSE {101, 102, 103}

ItemUrls(st) ==
  IF st = "two_by_three" THEN 1..6 ELSE IF st = "shared_links" THEN 1..4 ELSE 1..3

\* the nested crawl_category_page calls the interpreter's recursion limit
\* allows (sys.getrecursionlimit() over the frames of one call)
RecursionLimit == 3

SiteUrls(st) == {IndexUrl} \cup PageUrls(st) \cup ItemUrls(st)

AllUrls == (1..6) \cup (100..103)

\* how a url answers: always 200, always 404, always 503, 500 on the first
\* request and 200 afterwards, a network error or timeout on the first
\* request and 200 afterwards, a network error always, 200 with a body
\* extract_book_data rejects, or 200 with a page for which the store's
\* set_checkpoint raises when the item triggers a checkpoint
Behaviours ==
  {"ok", "not_found", "always_503", "once_500", "net_once", "net_always",
   "invalid_page", "checkpoint_error"}

NetErr == 0

\* the status of the n-th request to a url that behaves as b
Respond(b, n) ==
  CASE b = "not_found" -> 404
    [] b = "always_503" -> 503
    [] b = "once_500" -> IF n = 1 THEN 500 ELSE 200
    [] b = "net_once" -> IF n = 1 THEN NetErr ELSE 200
    [] b = "net_always" -> NetErr
    [] OTHER -> 200

(***************************************************************************)
(* CrawlerClient.fetch (src/crawler/client.py)                             *)
(***************************************************************************)
\* settings.retry_attempts
retry_attempts == 5

\* FetchBody with every status from 400 raised as a retried error
FetchBody_RetryClientErrors(status) ==
  IF status = NetErr \/ status >= 400
  THEN [kind |-> "raise", status |-> status, exc |-> "NetworkError"]
  ELSE [kind |-> "return", status |-> status, exc |-> "none"]

\* lines 58-79, the body of fetch for one response
FetchBody(status) ==
  IF status = NetErr THEN [kind |-> "raise", status |-> status, exc |-> "NetworkError"]
  ELSE IF status >= 500 THEN [kind |-> "raise", status |-> status, exc |-> "HTTPStatusError"]
  ELSE [kind |-> "return", status |-> status, exc |-> "none"]

\* line 34: retry_if_exception_type((NetworkError, TimeoutException))
RetriedExceptions == {"NetworkError", "TimeoutException"}

\* lines 33-37, the tenacity decorator after the n-th attempt ended as r:
\* the value is returned, the call is repeated, or an exception leaves fetch
Tenacity(r, n) ==
  IF r.kind = "return" THEN r
  ELSE IF r.exc \notin RetriedExceptions THEN r
  ELSE IF n >= retry_attempts THEN [r EXCEPT !.exc = "RetryError"]
  ELSE [r EXCEPT !.kind = "retry"]

\* the n-th attempt of fetch(url) on a url that behaves as b
FetchAttempt(b, n) == Tenacity(FetchBody(Respond(b, n)), n)

NoStats ==
  [total_books |-> -1, failed_urls |-> -1, categories_processed |-> -1,
   successful |-> FALSE]

\* the crawler's variables while no crawl is modelled
CrawlIdle ==
  /\ site = "two_by_three"
  /\ behav = [u \in AllUrls |-> "ok"]
  /\ max_concurrency = 10
  /\ checkpoint_interval = 10
  /\ seen_urls = {}
  /\ failed_urls = {}
  /\ books_processed = 0
  /\ sem = 0
  /\ tasks = << >>
  /\ runPc = "idle"
  /\ runAttempt = 0
  /\ catIdx = 0
  /\ curPage = 0
  /\ all_book_ids = << >>
  /\ checkpoint = None
  /\ requests = [u \in AllUrls |-> 0]
  /\ fetchCalls = [u \in AllUrls |-> 0]
  /\ stats = NoStats
  /\ resume_url = None
  /\ ck_issued = << >>
  /\ ck_written = << >>
  /\ depth = 0

(***************************************************************************)
(* Change detection (src/scheduler/fingerprinting.py)                      *)
(***************************************************************************)
\* the values of a content dict that is a Book: .get(field) of a missing
\* key is None
Get(content, f) == IF f \in DOMAIN content THEN content[f] ELSE None

\* detect_changes lines 25-41
detect_changes(old_content, new_content) ==
  [f \in {g \in TrackedFields : Get(old_content, g) # Get(new_content, g)} |->
     [old |-> Get(old_content, f), new |-> Get(new_content, f)]]

\* float(value or 0), lines 64-65
PriceOrZero(v) == IF v = None THEN 0 ELSE v

Abs(x) == IF x < 0 THEN -x ELSE x

\* the default threshold of is_significant_price_change, in percent
PriceThresholdPct == 5

\* is_significant_price_change lines 84-88; prices are whole units, so
\* abs(new - old) / old > 0.05 is 100 * abs(new - old) > 5 * old
is_significant_price_change(old_price, new_price) ==
  IF old_price = 0 THEN new_price > 0
  ELSE 100 * Abs(new_price - old_price) > PriceThresholdPct * old_price

significant_fields == {"title", "description", "category"}

price_fields == {"price_incl_tax", "price_excl_tax"}

\* is_significant_change lines 54-69
is_significant_change(chg) ==
  \/ \E f \in significant_fields : f \in DOMAIN chg
  \/ \E f \in price_fields :
       /\ f \in DOMAIN chg
       /\ is_significant_price_change(PriceOrZero(chg[f].old), PriceOrZero(chg[f].new))

\* summarize_changes lines 100-115
summarize_changes(chg) ==
  [total_changes |-> Cardinality(DOMAIN chg),
   has_significant_changes |-> is_significant_change(chg),
   price |-> Cardinality(DOMAIN chg \cap price_fields),
   availability |-> IF "availability" \in DOMAIN chg THEN 1 ELSE 0,
   metadata |-> Cardinality(DOMAIN chg \cap significant_fields),
   ratings |-> Cardinality(DOMAIN chg \cap {"rating", "num_reviews"})]

(***************************************************************************)
(* MongoStore.find_content_changes (src/crawler/store.py)                  *)
(***************************************************************************)
\* lines 272-286; book is Book.model_dump()
find_content_changes(bs, book, html) ==
  LET existing == get_book_by_url(bs, book.source_url)
  IN IF existing = NoDoc THEN [k \in {} |-> 0]
     ELSE IF existing.raw_html_hash = compute_html_hash(html) THEN [k \in {} |-> 0]
     ELSE DetectChanges(existing, book)

(***************************************************************************)
(* ChangeReporter (scheduler/reporting.py) and NotificationManager         *)
(* (src/scheduler/notifications.py)                                        *)
(***************************************************************************)
\* the percentage from which ChangeReporter and NotificationManager act
ReporterThresholdPct == 20

\* _is_significant_change lines 76-81: only the key 'price' is looked at;
\* abs((new - old) / old * 100) >= 20 is 100 * abs(new - old) >= 20 * old
reporter_is_significant_change(chg) ==
  IF "price" \in DOMAIN chg
  THEN 100 * Abs(chg["price"].new - chg["price"].old)
         >= ReporterThresholdPct * chg["price"].old
  ELSE FALSE

\* notify_price_change lines 168-186: the e-mails sent for one call
notify_price_change(book_title, old_price, new_price) ==
  IF 100 * Abs(new_price - old_price) >= ReporterThresholdPct * old_price
  THEN << [kind |-> "price_change", book_title |-> book_title,
           old_price |-> old_price, new_price |-> new_price] >>
  ELSE << >>

\* books.find_one({'_id': id})
find_one_by_id(bs, id) ==
  IF \E i \in 1..Len(bs) : bs[i]._id = id
  THEN bs[CHOOSE i \in 1..Len(bs) : bs[i]._id = id]
  ELSE NoDoc

\* record_change lines 60-70: the e-mails sent for a recorded diff
reporter_notify(bs, book_id, chg) ==
  IF reporter_is_significant_change(chg) /\ find_one_by_id(bs, book_id) # NoDoc
       /\ "price" \in DOMAIN chg
  THEN notify_price_change(find_one_by_id(bs, book_id).title,
                           chg["price"].old, chg["price"].new)
  ELSE << >>

\* ChangeRecord(...).model_dump(), lines 51-55
ChangeRecord(book_id, chg, t) ==
  [book_id |-> book_id, timestamp |-> t, changes |-> chg]

NoDet ==
  [op |-> "none", changes |-> [k \in {} |-> 0], significant |-> FALSE,
   recorded |-> FALSE, notified |-> 0, raised |-> FALSE]

\* the detection variables while no detection is modelled
DetectIdle ==
  /\ change_records = << >>
  /\ notifications = << >>
  /\ significant_log = << >>
  /\ reporter_has_store = FALSE
  /\ det = NoDet
  /\ detCount = 0

(***************************************************************************)
(* Checkpoints: get_last_checkpoint and set_checkpoint                     *)
(***************************************************************************)
CheckpointTypes == {"page", "category"}

CkWorkers == {1, 2}

IdleCk == [pc |-> "idle", type |-> "page", value |-> 0, timestamp |-> 0]

CkIdle ==
  /\ checkpoints = << >>
  /\ unique_checkpoint_type = FALSE
  /\ ckw = [w \in CkWorkers |-> IdleCk]
  /\ ckWritten = {}
  /\ ckCount = 0
  /\ ckRead = [t \in CheckpointTypes |-> None]
  /\ run_calls = << >>

\* consolidate_changes is not running; previous and previous_count are
\* history: the cutoff and the returned count of the call before
NoCons ==
  [pc |-> "idle", older_than |-> 0, groups |-> << >>, consolidated |-> 0,
   before |-> << >>, previous |-> 0, previous_count |-> 0]

ConsIdle == cons = NoCons /\ consCount = 0

\* the jobs _configure_jobs adds
JobIds == {"full_site_scan", "change_detection", "maintenance", "health_check"}

SchedIdle ==
  /\ clock = 0
  /\ schedUp = FALSE
  /\ next_run_time = [j \in JobIds |-> 0]
  /\ instances = [j \in JobIds |-> 0]
  /\ execs = << >>
  /\ dropped = {}
  /\ missed = {}
  /\ restarts = 0

\* the jobs that write JobRun entries
JobTypes == {"full_site_scan", "change_detection", "maintenance"}

NoError == [src |-> "none", n |-> 0]

\* a job slot with no invocation in it
IdleJob ==
  [pc |-> "idle", inv |-> 0, attempt |-> 0, retry_delay |-> 0, sleeps |-> << >>,
   body_calls |-> 0, body_fails |-> 0, fails |-> 0, e |-> NoError,
   last_error |-> NoError, raised |-> NoError]

JobsIdle ==
  /\ job_runs = << >>
  /\ jobInv = [j \in JobTypes |-> IdleJob]
  /\ error_alerts = << >>
  /\ invCount = 0

\* the tasks that fetch concurrently
Fetchers == {1, 2}

NoClient ==
  [pc |-> "none", last_request_time |-> 0, locked |-> FALSE, wake |-> 0,
   attempt |-> 0]

PoliteIdle ==
  /\ loop_time = 0
  /\ clients = [w \in Fetchers |-> NoClient]
  /\ dispatched = << >>
  /\ clientCount = 0

NoResult ==
  [status |-> "none", overall_status |-> "none", total_books |-> -1,
   recent_jobs |-> {}, database_status |-> "none"]

\* the health-check slot with no invocation in it
IdleHealth ==
  [pc |-> "idle", attempts |-> 0, failed |-> FALSE, raised |-> FALSE,
   result |-> NoResult]

HealthIdle ==
  /\ health = IdleHealth
  /\ hcCount = 0

\* the jobs whose tasks the service section follows
ServiceJobs == {"full_site_scan", "change_detection"}

NoTask ==
  [pc |-> 0, cancel |-> FALSE, done |-> << >>, outcome |-> "none",
   after_signal |-> FALSE]

ServiceIdle ==
  /\ service = "none"
  /\ timerOn = FALSE
  /\ jobTasks = [j \in ServiceJobs |-> NoTask]
  /\ jobStarts = 0
  /\ shutdown_called = FALSE
  /\ db_init = "pending"

ApiKeys == {1, 2}

\* hash_api_key (api/auth/api_key.py lines 26-40): SHA-256, one identifier
\* per key
hash_api_key(k) == 100 + k

KeyIdentifiers == {hash_api_key(k) : k \in ApiKeys}

RateIdle ==
  /\ utcnow = 0
  /\ rl_requests = [id \in KeyIdentifiers |-> << >>]
  /\ rl_log = << >>
  /\ rl_handling = 0

MoreIdle == PoliteIdle /\ HealthIdle /\ ServiceIdle /\ RateIdle

OtherIdle == CkIdle /\ ConsIdle /\ SchedIdle /\ JobsIdle /\ MoreIdle

StoreInit ==
  /\ OtherIdle
  /\ books = << >>
  /\ changes = << >>
  /\ now = 1
  /\ changing_field \in TrackedFields
  /\ unique_source_url \in BOOLEAN
  /\ upw = [w \in Upserters |-> IdleWorker]
  /\ opCount = 0
  /\ CrawlIdle
  /\ DetectIdle

\* upsert_book lines 81-100: hash, snapshot upload, book_dict, read of the
\* stored document
UpsertBegin(w, u, v) ==
  /\ upw[w].pc = "idle"
  /\ opCount < MaxUpserts
  /\ now' = now + 1
  /\ opCount' = opCount + 1
  /\ upw' = [upw EXCEPT ![w] =
       [pc |-> "found",
        book_dict |-> BookDict(PageBook(u, v), PageHtml(u, v),
                               FileId(opCount'), now'),
        existing |-> get_book_by_url(books, u),
        html |-> PageHtml(u, v),
        chg |-> [k \in {} |-> 0],
        emitted |-> 0, result |-> None]]
  /\ UNCHANGED <<crawlVars, detectVars, otherVars, books, changes, changing_field, unique_source_url>>

\* lines 102-116 and 124-128: an existing document is updated when some key
\* of book_dict differs from it, and left alone otherwise; crawl_timestamp
\* and the snapshot id of this call always differ from the stored ones
UpsertUpdate(w) ==
  LET s == upw[w]
      chg == DetectChanges(s.existing, s.book_dict)
  IN /\ s.pc = "found"
     /\ s.existing # NoDoc
     /\ IF DOMAIN chg # {}
        THEN /\ books' = find_one_and_update(books, s.existing._id, s.book_dict)
             /\ upw' = [upw EXCEPT ![w] = [s EXCEPT !.pc = "record", !.chg = chg]]
        ELSE /\ upw' = [upw EXCEPT ![w] =
                         [s EXCEPT !.pc = "done", !.result = s.existing._id]]
             /\ UNCHANGED books
     /\ UNCHANGED <<crawlVars, detectVars, otherVars, changes, now, changing_field,
                    unique_source_url, opCount>>

\* lines 121-123 and 136: the change document is written, the id returned
UpsertRecordChange(w) ==
  LET s == upw[w]
  IN /\ s.pc = "record"
     /\ changes' = Append(changes, ChangeDoc(s.existing._id, s.chg, now))
     /\ upw' = [upw EXCEPT ![w] =
          [s EXCEPT !.pc = "done",
                    !.emitted = s.emitted + Len(changes') - Len(changes),
                    !.result = s.existing._id]]
     /\ UNCHANGED <<crawlVars, detectVars, otherVars, books, now, changing_field, unique_source_url, opCount>>

\* UpsertInsert that also writes a change document for the new record
UpsertInsert_RecordsChange(w) ==
  LET s == upw[w]
  IN /\ s.pc = "found"
     /\ s.existing = NoDoc
     /\ ~(unique_source_url /\ MatchingDocs(books, s.book_dict.source_url) # {})
     /\ books' = Append(books, NewDoc(s.book_dict, ObjectId(books)))
     /\ changes' = Append(changes, ChangeDoc(ObjectId(books), s.chg, now))
     /\ upw' = [upw EXCEPT ![w] = [s EXCEPT !.pc = "done", !.result = ObjectId(books)]]
     /\ UNCHANGED <<crawlVars, detectVars, otherVars, now, changing_field, unique_source_url, opCount>>

\* lines 129-134: no document was found, insert_one
UpsertInsert(w) ==
  LET s == upw[w]
  IN /\ s.pc = "found"
     /\ s.existing = NoDoc
     /\ ~(unique_source_url /\ MatchingDocs(books, s.book_dict.source_url) # {})
     /\ books' = Append(books, NewDoc(s.book_dict, ObjectId(books)))
     /\ upw' = [upw EXCEPT ![w] = [s EXCEPT !.pc = "done", !.result = ObjectId(books)]]
     /\ UNCHANGED <<crawlVars, detectVars, otherVars, changes, now, changing_field, unique_source_url, opCount>>

\* insert_one raises DuplicateKeyError under the unique index
UpsertInsertDuplicate(w) ==
  LET s == upw[w]
  IN /\ s.pc = "found"
     /\ s.existing = NoDoc
     /\ unique_source_url
     /\ MatchingDocs(books, s.book_dict.source_url) # {}
     /\ upw' = [upw EXCEPT ![w] = [s EXCEPT !.pc = "raised"]]
     /\ UNCHANGED <<crawlVars, detectVars, otherVars, books, changes, now, changing_field, unique_source_url, opCount>>

\* the caller takes the result (or the exception)
UpsertReturn(w) ==
  /\ upw[w].pc \in {"done", "raised"}
  /\ upw' = [upw EXCEPT ![w] = IdleWorker]
  /\ UNCHANGED <<crawlVars, detectVars, otherVars, books, changes, now, changing_field, unique_source_url, opCount>>

StoreNext ==
  \E w \in Upserters :
    \/ \E u \in StoreUrls, v \in Variants(changing_field) : UpsertBegin(w, u, v)
    \/ UpsertUpdate(w)
    \/ UpsertRecordChange(w)
    \/ UpsertInsert(w)
    \/ UpsertInsertDuplicate(w)
    \/ UpsertReturn(w)

SpecStore == StoreInit /\ [][StoreNext]_vars

(***************************************************************************)
(* BooksCrawler (crawler/runner.py)                                        *)
(***************************************************************************)
\* the configurations a crawl is run with: the defaults, and a small one
Configs ==
  { [max_concurrency |-> 10, checkpoint_interval |-> 10],
    [max_concurrency |-> 2, checkpoint_interval |-> 2] }

\* at most one url of the site misbehaves; only an item page can be invalid
\* or have its checkpoint write fail
SiteBehaviours(st) ==
  { [u \in AllUrls |-> IF u = f THEN b ELSE "ok"] :
      <<f, b>> \in { fb \in SiteUrls(st) \X Behaviours :
                       fb[2] \in {"invalid_page", "checkpoint_error"}
                         => fb[1] \in ItemUrls(st) } }

\* the item urls an earlier, interrupted run stored, in the order it stored
\* them; the last one is the checkpoint it wrote (crawl_book_page lines
\* 93-102).  << >> is a repository no run has written to.
PreviousRuns == { << >>, <<1, 2>>, <<1, 2, 3, 4>> }

\* the books collection the earlier run left behind
RECURSIVE PreviousBooks(_)
PreviousBooks(urls) ==
  IF urls = << >> THEN << >>
  ELSE LET n == Len(urls)
           bs == PreviousBooks(SubSeq(urls, 1, n - 1))
       IN Append(bs, NewDoc(BookDict(PageBook(urls[n], "none"),
                                     PageHtml(urls[n], "none"), FileId(n), n + 1),
                            ObjectId(bs)))

\* MongoStore has no attribute get_processed_urls (crawler/store.py defines
\* get_pending_urls only): the call of run() line 172 raises AttributeError
HasGetProcessedUrls == FALSE

\* get_processed_urls as its caller uses it: the urls of the stored books
get_processed_urls(bs) == {bs[i].source_url : i \in 1..Len(bs)}

CrawlInit ==
  /\ OtherIdle
  /\ \E prev \in PreviousRuns :
       /\ books = PreviousBooks(prev)
       /\ now = Len(prev) + 1
       /\ opCount = Len(prev)
       /\ checkpoint = IF prev = << >> THEN None ELSE prev[Len(prev)]
       /\ resume_url = checkpoint
  /\ ck_issued = << >>
  /\ ck_written = << >>
  /\ depth = 0
  /\ changes = << >>
  /\ changing_field = "title"
  /\ unique_source_url = FALSE
  /\ upw = [w \in Upserters |-> IdleWorker]
  /\ site \in Sites
  /\ behav \in SiteBehaviours(site)
  \* a resumed run is modelled on a site every url of which answers
  /\ resume_url # None => \A u \in AllUrls : behav[u] = "ok"
  /\ \E c \in Configs :
       /\ max_concurrency = c.max_concurrency
       /\ checkpoint_interval = c.checkpoint_interval
  /\ seen_urls = {}
  /\ failed_urls = {}
  /\ books_processed = 0
  /\ sem = 0
  /\ tasks = << >>
  /\ runPc = "start"
  /\ runAttempt = 0
  /\ catIdx = 0
  /\ curPage = 0
  /\ all_book_ids = << >>
  /\ requests = [u \in AllUrls |-> 0]
  /\ fetchCalls = [u \in AllUrls |-> 0]
  /\ stats = NoStats
  /\ DetectIdle

siteVars == <<site, behav, max_concurrency, checkpoint_interval>>

\* one attempt of fetch(u) is made: the request is counted
Requested(u, n) ==
  /\ requests' = [requests EXCEPT ![u] = @ + 1]
  /\ fetchCalls' = [fetchCalls EXCEPT ![u] = IF n = 1 THEN @ + 1 ELSE @]

\* run() lines 167-175: a resumed run loads the processed urls into the seen
\* set; the exception of line 172 is logged and raised again (lines 219-221)
RunStart ==
  /\ runPc = "start"
  /\ IF resume_url = None
     THEN runPc' = "index" /\ UNCHANGED seen_urls
     ELSE IF HasGetProcessedUrls
     THEN runPc' = "index" /\ seen_urls' = get_processed_urls(books)
     ELSE runPc' = "raised" /\ UNCHANGED seen_urls
  /\ UNCHANGED <<books, changes, now, opCount, storeVars, detectVars, otherVars, depth, siteVars, resume_url,
                 failed_urls, books_processed, sem, tasks, runAttempt, catIdx, curPage,
                 all_book_ids, checkpoint, ck_issued, ck_written, requests, fetchCalls, stats>>

\* run() lines 177-182: the index page is fetched, the categories extracted
RunFetchIndex ==
  LET n == runAttempt + 1
      r == FetchAttempt(behav[IndexUrl], n)
  IN /\ runPc = "index"
     /\ Requested(IndexUrl, n)
     /\ IF r.kind = "retry" THEN runAttempt' = n /\ UNCHANGED <<runPc, catIdx>>
        ELSE IF r.kind = "return" /\ r.status = 200
        THEN runPc' = "category" /\ catIdx' = 1 /\ runAttempt' = 0
        ELSE runPc' = "raised" /\ runAttempt' = 0 /\ UNCHANGED catIdx
     /\ UNCHANGED <<books, changes, now, opCount, storeVars, detectVars, otherVars, depth, siteVars, resume_url, seen_urls,
                    failed_urls, books_processed, sem, tasks, curPage,
                    all_book_ids, checkpoint, ck_issued, ck_written, stats>>

\* run() lines 188-195: the next category is entered, or skipped when a
\* resume point is set and the category's url is not it
RunNextCategory ==
  /\ runPc = "category"
  /\ catIdx <= Len(extract_categories(site))
  /\ IF resume_url # None /\ extract_categories(site)[catIdx].url # resume_url
     THEN catIdx' = catIdx + 1 /\ UNCHANGED <<curPage, runPc, depth>>
     ELSE /\ curPage' = extract_categories(site)[catIdx].url
          /\ runPc' = "page" /\ depth' = 1 /\ UNCHANGED catIdx
  /\ UNCHANGED <<books, changes, now, opCount, storeVars, detectVars, otherVars, siteVars, resume_url, seen_urls,
                 failed_urls, books_processed, sem, tasks, runAttempt,
                 all_book_ids, checkpoint, ck_issued, ck_written, requests, fetchCalls, stats>>

\* crawl_category_page lines 130-136: a task per listed url not yet seen
NewTask(u) == [url |-> u, pc |-> "created", attempt |-> 0, result |-> None, how |-> "none"]

RECURSIVE Dispatch(_, _)
Dispatch(items, seen) ==
  IF items = << >> THEN << >>
  ELSE IF Head(items) \in seen THEN Dispatch(Tail(items), seen)
  ELSE <<NewTask(Head(items))>> \o Dispatch(Tail(items), seen)

\* RunFetchPage with a failure that ends the loop over the categories
RunFetchPage_FailureEndsLoop ==
  LET n == runAttempt + 1
      r == FetchAttempt(behav[curPage], n)
  IN /\ runPc = "page"
     /\ Requested(curPage, n)
     /\ IF r.kind = "retry"
        THEN runAttempt' = n /\ UNCHANGED <<runPc, catIdx, tasks>>
        ELSE IF r.kind = "return" /\ r.status = 200
        THEN /\ tasks' = Dispatch(extract_books_from_list(site, curPage), seen_urls)
             /\ runPc' = "gather" /\ runAttempt' = 0 /\ UNCHANGED catIdx
        ELSE /\ runPc' = "category" /\ runAttempt' = 0
             /\ catIdx' = Len(extract_categories(site)) + 1
             /\ UNCHANGED tasks
     /\ resume_url' = IF runPc' = "category" THEN None ELSE resume_url
     /\ depth' = IF runPc' = "category" THEN 0 ELSE depth
     /\ UNCHANGED <<books, changes, now, opCount, storeVars, detectVars, otherVars, siteVars, seen_urls,
                    failed_urls, books_processed, sem, curPage, all_book_ids,
                    checkpoint, ck_issued, ck_written, stats>>

\* crawl_category_page lines 119-136 and 151-153: the page is fetched; its
\* item tasks are created, or the call returns [] and the category ends
RunFetchPage ==
  LET n == runAttempt + 1
      r == FetchAttempt(behav[curPage], n)
  IN /\ runPc = "page"
     /\ Requested(curPage, n)
     /\ IF r.kind = "retry"
        THEN runAttempt' = n /\ UNCHANGED <<runPc, catIdx, tasks>>
        ELSE IF r.kind = "return" /\ r.status = 200
        THEN /\ tasks' = Dispatch(extract_books_from_list(site, curPage), seen_urls)
             /\ runPc' = "gather" /\ runAttempt' = 0 /\ UNCHANGED catIdx
        ELSE /\ runPc' = "category" /\ catIdx' = catIdx + 1 /\ runAttempt' = 0
             /\ UNCHANGED tasks
     /\ resume_url' = IF runPc' = "category" THEN None ELSE resume_url
     /\ depth' = IF runPc' = "category" THEN 0 ELSE depth
     /\ UNCHANGED <<books, changes, now, opCount, storeVars, detectVars, otherVars, siteVars, seen_urls,
                    failed_urls, books_processed, sem, curPage, all_book_ids,
                    checkpoint, ck_issued, ck_written, stats>>

\* the results of the tasks that are str, in task order (line 140)
RECURSIVE BookIds(_)
BookIds(ts) ==
  IF ts = << >> THEN << >>
  ELSE (IF Head(ts).result # None THEN <<Head(ts).result>> ELSE << >>)
         \o BookIds(Tail(ts))

\* RunGather that goes on as soon as one task of the page has ended
RunGather_FirstCompleted ==
  LET next_url == get_next_page_url(site, curPage) IN
  /\ runPc = "gather"
  /\ tasks # << >> => \E i \in 1..Len(tasks) : tasks[i].pc = "finished"
  /\ tasks' = << >>
  /\ IF next_url # 0 /\ depth < RecursionLimit
     THEN /\ curPage' = next_url
          /\ runPc' = "page" /\ depth' = depth + 1 /\ UNCHANGED catIdx
          /\ all_book_ids' = all_book_ids \o BookIds(tasks)
     ELSE /\ runPc' = "category" /\ catIdx' = catIdx + 1 /\ depth' = 0
          /\ UNCHANGED curPage
          /\ IF next_url # 0
             THEN \E lost \in BOOLEAN :
                    all_book_ids' = IF lost THEN all_book_ids
                                    ELSE all_book_ids \o BookIds(tasks)
             ELSE all_book_ids' = all_book_ids \o BookIds(tasks)
  /\ resume_url' = IF runPc' = "category" THEN None ELSE resume_url
  /\ UNCHANGED <<books, changes, now, opCount, storeVars, detectVars, otherVars, siteVars, seen_urls,
                 failed_urls, books_processed, sem, runAttempt, checkpoint, ck_issued, ck_written,
                 requests, fetchCalls, stats>>

\* RunGather with a nested call at the recursion limit that never returns
RunGather_NoReturnAtLimit ==
  LET next_url == get_next_page_url(site, curPage) IN
  /\ runPc = "gather"
  /\ \A i \in 1..Len(tasks) : tasks[i].pc = "finished"
  /\ next_url # 0 => depth < RecursionLimit
  /\ tasks' = << >>
  /\ IF next_url # 0 /\ depth < RecursionLimit
     THEN /\ curPage' = next_url
          /\ runPc' = "page" /\ depth' = depth + 1 /\ UNCHANGED catIdx
          /\ all_book_ids' = all_book_ids \o BookIds(tasks)
     ELSE /\ runPc' = "category" /\ catIdx' = catIdx + 1 /\ depth' = 0
          /\ UNCHANGED curPage
          /\ IF next_url # 0
             THEN \E lost \in BOOLEAN :
                    all_book_ids' = IF lost THEN all_book_ids
                                    ELSE all_book_ids \o BookIds(tasks)
             ELSE all_book_ids' = all_book_ids \o BookIds(tasks)
  /\ resume_url' = IF runPc' = "category" THEN None ELSE resume_url
  /\ UNCHANGED <<books, changes, now, opCount, storeVars, detectVars, otherVars, siteVars, seen_urls,
                 failed_urls, books_processed, sem, runAttempt, checkpoint, ck_issued, ck_written,
                 requests, fetchCalls, stats>>

\* crawl_category_page lines 139-153 and run() lines 196-204: every task of
\* the page has ended; the next page is entered by a nested call, or the
\* category ends.  A nested call beyond the interpreter's recursion limit
\* raises RecursionError, an Exception: the except clause of the call it is
\* raised in (lines 151-153) returns [], the call at the limit or the one it
\* entered, and the calls around it return what they gathered
RunGather ==
  LET next_url == get_next_page_url(site, curPage) IN
  /\ runPc = "gather"
  /\ \A i \in 1..Len(tasks) : tasks[i].pc = "finished"
  /\ tasks' = << >>
  /\ IF next_url # 0 /\ depth < RecursionLimit
     THEN /\ curPage' = next_url
          /\ runPc' = "page" /\ depth' = depth + 1 /\ UNCHANGED catIdx
          /\ all_book_ids' = all_book_ids \o BookIds(tasks)
     ELSE /\ runPc' = "category" /\ catIdx' = catIdx + 1 /\ depth' = 0
          /\ UNCHANGED curPage
          /\ IF next_url # 0
             THEN \E lost \in BOOLEAN :
                    all_book_ids' = IF lost THEN all_book_ids
                                    ELSE all_book_ids \o BookIds(tasks)
             ELSE all_book_ids' = all_book_ids \o BookIds(tasks)
  /\ resume_url' = IF runPc' = "category" THEN None ELSE resume_url
  /\ UNCHANGED <<books, changes, now, opCount, storeVars, detectVars, otherVars, siteVars, seen_urls,
                 failed_urls, books_processed, sem, runAttempt, checkpoint, ck_issued, ck_written,
                 requests, fetchCalls, stats>>

\* run() lines 206-217: the statistics are compiled
RunFinish ==
  /\ runPc = "category"
  /\ catIdx > Len(extract_categories(site))
  /\ stats' = [total_books |-> Len(all_book_ids),
               failed_urls |-> Cardinality(failed_urls),
               categories_processed |-> Len(extract_categories(site)),
               successful |-> Cardinality(failed_urls) = 0]
  /\ runPc' = "done"
  /\ UNCHANGED <<books, changes, now, opCount, storeVars, detectVars, otherVars, depth, siteVars, resume_url, seen_urls,
                 failed_urls, books_processed, sem, tasks, runAttempt, catIdx,
                 curPage, all_book_ids, checkpoint, ck_issued, ck_written, requests, fetchCalls>>

\* TaskStart without the seen check
TaskStart_NoSeenCheck(i) ==
  /\ i \in 1..Len(tasks)
  /\ tasks[i].pc = "created"
  /\ seen_urls' = seen_urls \cup {tasks[i].url}
  /\ tasks' = [tasks EXCEPT ![i].pc = "waiting"]
  /\ UNCHANGED <<books, changes, now, opCount, storeVars, detectVars, otherVars, depth, siteVars, resume_url,
                 failed_urls, books_processed, sem, runPc, runAttempt, catIdx,
                 curPage, all_book_ids, checkpoint, ck_issued, ck_written, requests, fetchCalls, stats>>

\* crawl_book_page lines 59-62: the seen check and the insertion, with no
\* suspension point between them
TaskStart(i) ==
  /\ i \in 1..Len(tasks)
  /\ tasks[i].pc = "created"
  /\ IF tasks[i].url \in seen_urls
     THEN /\ tasks' = [tasks EXCEPT ![i].pc = "finished", ![i].how = "seen"]
          /\ UNCHANGED seen_urls
     ELSE /\ seen_urls' = seen_urls \cup {tasks[i].url}
          /\ tasks' = [tasks EXCEPT ![i].pc = "waiting"]
  /\ UNCHANGED <<books, changes, now, opCount, storeVars, detectVars, otherVars, depth, siteVars, resume_url, failed_urls,
                 books_processed, sem, runPc, runAttempt, catIdx, curPage,
                 all_book_ids, checkpoint, ck_issued, ck_written, requests, fetchCalls, stats>>

\* TaskAcquire with a semaphore that admits every task
TaskAcquire_NoSemaphore(i) ==
  /\ i \in 1..Len(tasks)
  /\ tasks[i].pc = "waiting"
  /\ sem' = sem + 1
  /\ tasks' = [tasks EXCEPT ![i].pc = "fetch"]
  /\ UNCHANGED <<books, changes, now, opCount, storeVars, detectVars, otherVars, depth, siteVars, resume_url, seen_urls,
                 failed_urls, books_processed, runPc, runAttempt, catIdx,
                 curPage, all_book_ids, checkpoint, ck_issued, ck_written, requests, fetchCalls, stats>>

\* line 63: async with self.semaphore
TaskAcquire(i) ==
  /\ i \in 1..Len(tasks)
  /\ tasks[i].pc = "waiting"
  /\ sem < max_concurrency
  /\ sem' = sem + 1
  /\ tasks' = [tasks EXCEPT ![i].pc = "fetch"]
  /\ UNCHANGED <<books, changes, now, opCount, storeVars, detectVars, otherVars, depth, siteVars, resume_url, seen_urls,
                 failed_urls, books_processed, runPc, runAttempt, catIdx,
                 curPage, all_book_ids, checkpoint, ck_issued, ck_written, requests, fetchCalls, stats>>

\* TaskFetch with a failure that leaves crawl_book_page and gather as an
\* exception of run()
TaskFetch_FailureAborts(i) ==
  LET u == tasks[i].url
      n == tasks[i].attempt + 1
      r == FetchAttempt(behav[u], n)
  IN /\ i \in 1..Len(tasks)
     /\ tasks[i].pc = "fetch"
     /\ Requested(u, n)
     /\ IF r.kind = "retry"
        THEN /\ tasks' = [tasks EXCEPT ![i].attempt = n]
             /\ UNCHANGED <<failed_urls, sem, runPc>>
        ELSE IF r.kind = "return" /\ r.status = 200
        THEN /\ tasks' = [tasks EXCEPT ![i].attempt = n, ![i].pc = "process"]
             /\ UNCHANGED <<failed_urls, sem, runPc>>
        ELSE /\ failed_urls' = failed_urls \cup {u}
             /\ sem' = sem - 1
             /\ runPc' = "raised"
             /\ tasks' = [tasks EXCEPT ![i].attempt = n, ![i].pc = "finished",
                                       ![i].how = "failed"]
     /\ UNCHANGED <<books, changes, now, opCount, storeVars, detectVars, otherVars, depth, siteVars, resume_url, seen_urls,
                    books_processed, runAttempt, catIdx, curPage,
                    all_book_ids, checkpoint, ck_issued, ck_written, stats>>

\* lines 66-73 and 104-107: one attempt of client.fetch(url); a status other
\* than 200 and an exception both put the url into failed_urls
TaskFetch(i) ==
  LET u == tasks[i].url
      n == tasks[i].attempt + 1
      r == FetchAttempt(behav[u], n)
  IN /\ i \in 1..Len(tasks)
     /\ tasks[i].pc = "fetch"
     /\ Requested(u, n)
     /\ IF r.kind = "retry"
        THEN /\ tasks' = [tasks EXCEPT ![i].attempt = n]
             /\ UNCHANGED <<failed_urls, sem>>
        ELSE IF r.kind = "return" /\ r.status = 200
        THEN /\ tasks' = [tasks EXCEPT ![i].attempt = n, ![i].pc = "process"]
             /\ UNCHANGED <<failed_urls, sem>>
        ELSE /\ failed_urls' = failed_urls \cup {u}
             /\ sem' = sem - 1
             /\ tasks' = [tasks EXCEPT ![i].attempt = n, ![i].pc = "finished",
                                       ![i].how = "failed"]
     /\ UNCHANGED <<books, changes, now, opCount, storeVars, detectVars, otherVars, depth, siteVars, resume_url, seen_urls,
                    books_processed, runPc, runAttempt, catIdx, curPage,
                    all_book_ids, checkpoint, ck_issued, ck_written, stats>>

\* upsert_book as one step of a crawl: within a run a url is upserted by one
\* task only
UpsertedBooks(bs, existing, book_dict) ==
  IF existing = NoDoc THEN Append(bs, NewDoc(book_dict, ObjectId(bs)))
  ELSE IF DOMAIN DetectChanges(existing, book_dict) # {}
  THEN find_one_and_update(bs, existing._id, book_dict)
  ELSE bs

UpsertedChanges(chs, existing, book_dict, t) ==
  IF existing # NoDoc /\ DOMAIN DetectChanges(existing, book_dict) # {}
  THEN Append(chs, ChangeDoc(existing._id, DetectChanges(existing, book_dict), t))
  ELSE chs

\* lines 75-91 and 104-107: the page is parsed and the book upserted, or
\* extract_book_data raises and the url is put into failed_urls
TaskUpsert(i) ==
  LET u == tasks[i].url
      existing == get_book_by_url(books, u)
      book_dict == BookDict(PageBook(u, "none"), PageHtml(u, "none"),
                            FileId(opCount + 1), now + 1)
  IN /\ i \in 1..Len(tasks)
     /\ tasks[i].pc = "process"
     /\ IF behav[u] = "invalid_page"
        THEN /\ failed_urls' = failed_urls \cup {u}
             /\ sem' = sem - 1
             /\ tasks' = [tasks EXCEPT ![i].pc = "finished", ![i].how = "failed"]
             /\ UNCHANGED <<books, changes, now, opCount>>
        ELSE /\ books' = UpsertedBooks(books, existing, book_dict)
             /\ changes' = UpsertedChanges(changes, existing, book_dict, now + 1)
             /\ now' = now + 1
             /\ opCount' = opCount + 1
             /\ tasks' = [tasks EXCEPT ![i].pc = "upserted",
                            ![i].result = IF existing = NoDoc THEN ObjectId(books)
                                          ELSE existing._id]
             /\ UNCHANGED <<failed_urls, sem>>
     /\ UNCHANGED <<storeVars, detectVars, otherVars, depth, siteVars, resume_url, seen_urls, books_processed, runPc,
                    runAttempt, catIdx, curPage, all_book_ids, checkpoint, ck_issued, ck_written,
                    requests, fetchCalls, stats>>

\* TaskCount with the test made on the counter as it was before the
\* worker's own increment
TaskCount_StaleTest(i) ==
  /\ i \in 1..Len(tasks)
  /\ tasks[i].pc = "upserted"
  /\ books_processed' = books_processed + 1
  /\ IF books_processed # 0 /\ books_processed % checkpoint_interval = 0
     THEN /\ tasks' = [tasks EXCEPT ![i].pc = "checkpoint"]
          /\ ck_issued' = Append(ck_issued, [url |-> tasks[i].url,
                                             count |-> books_processed'])
          /\ UNCHANGED sem
     ELSE /\ tasks' = [tasks EXCEPT ![i].pc = "finished", ![i].how = "ok"]
          /\ sem' = sem - 1
          /\ UNCHANGED ck_issued
  /\ UNCHANGED <<books, changes, now, opCount, storeVars, detectVars, otherVars, depth, siteVars, resume_url, seen_urls,
                 failed_urls, runPc, runAttempt, catIdx, curPage, all_book_ids,
                 checkpoint, ck_written, requests, fetchCalls, stats>>

\* lines 93-98: the success counter and the test for a checkpoint, with
\* nothing awaited in between; when the test holds set_checkpoint(url) is
\* called, and it runs up to the await of the driver's update_one
TaskCount(i) ==
  /\ i \in 1..Len(tasks)
  /\ tasks[i].pc = "upserted"
  /\ books_processed' = books_processed + 1
  /\ IF books_processed' % checkpoint_interval = 0
     THEN /\ tasks' = [tasks EXCEPT ![i].pc = "checkpoint"]
          /\ ck_issued' = Append(ck_issued, [url |-> tasks[i].url,
                                             count |-> books_processed'])
          /\ UNCHANGED sem
     ELSE /\ tasks' = [tasks EXCEPT ![i].pc = "finished", ![i].how = "ok"]
          /\ sem' = sem - 1
          /\ UNCHANGED ck_issued
  /\ UNCHANGED <<books, changes, now, opCount, storeVars, detectVars, otherVars, depth, siteVars, resume_url, seen_urls,
                 failed_urls, runPc, runAttempt, catIdx, curPage, all_book_ids,
                 checkpoint, ck_written, requests, fetchCalls, stats>>

\* the set_checkpoint call the worker of url u made
IssuedFor(u) ==
  ck_issued[CHOOSE k \in DOMAIN ck_issued : ck_issued[k].url = u]

\* lines 98-107: the update_one of set_checkpoint takes effect and the id is
\* returned, or it raises: the except clause puts the url into failed_urls
\* and None is returned
TaskCheckpoint(i) ==
  LET u == tasks[i].url IN
  /\ i \in 1..Len(tasks)
  /\ tasks[i].pc = "checkpoint"
  /\ IF behav[u] = "checkpoint_error"
     THEN /\ failed_urls' = failed_urls \cup {u}
          /\ tasks' = [tasks EXCEPT ![i].pc = "finished", ![i].how = "failed",
                                    ![i].result = None]
          /\ UNCHANGED checkpoint
     ELSE /\ checkpoint' = u
          /\ tasks' = [tasks EXCEPT ![i].pc = "finished", ![i].how = "ok"]
          /\ UNCHANGED failed_urls
  /\ ck_written' = Append(ck_written, [url |-> u, count |-> IssuedFor(u).count,
                                       ok |-> behav[u] # "checkpoint_error"])
  /\ sem' = sem - 1
  /\ UNCHANGED <<books, changes, now, opCount, storeVars, detectVars, otherVars, depth, siteVars, resume_url, seen_urls,
                 books_processed, runPc, runAttempt, catIdx,
                 curPage, all_book_ids, ck_issued, requests, fetchCalls, stats>>

CrawlNext ==
  \/ RunStart
  \/ RunFetchIndex
  \/ RunNextCategory
  \/ RunFetchPage
  \/ RunGather
  \/ RunFinish
  \/ \E i \in DOMAIN tasks :
       \/ TaskStart(i)
       \/ TaskAcquire(i)
       \/ TaskFetch(i)
       \/ TaskUpsert(i)
       \/ TaskCount(i)
       \/ TaskCheckpoint(i)

SpecCrawl == CrawlInit /\ [][CrawlNext]_vars

(***************************************************************************)
(* Change detection and notification as operations on a database that      *)
(* holds one crawled book.                                                 *)
(***************************************************************************)
MaxDetectOps == 2

\* the url of the one crawled book
DetectUrl == CHOOSE u \in StoreUrls : TRUE

\* prices a later version of the page can show: 4%, 5% and 50% above 100
LaterPrices == {104, 105, 150}

\* the versions of the page: the first one, or one with field f set to v
DetectVersions ==
  {[f |-> "none", v |-> 0]}
    \cup {[f |-> g, v |-> AltValue(g)] : g \in TrackedFields \ price_fields}
    \cup {[f |-> g, v |-> x] : g \in price_fields, x \in LaterPrices}

\* the raw html of a version (an abstract content id, one per version)
VersionHtml(ver) == 10000 * DetectUrl + 1000 * VariantIndex(ver.f) + ver.v

\* extract_book_data (src/crawler/parsers.py lines 136-151): the md5
\* fingerprint never equals a stored SHA-256 hash
Md5(html) == 2000000 + html

\* the Book parsed from a version, as Book.model_dump(); id is the id the
\* caller gives it and t the time of the parse
VersionBook(ver, id, t) ==
  LET b == [BaseBook(DetectUrl) EXCEPT !["id"] = id,
                                       !["crawl_timestamp"] = t,
                                       !["raw_html_hash"] = Md5(VersionHtml(ver))]
  IN IF ver.f = "none" THEN b ELSE [b EXCEPT ![ver.f] = ver.v]

\* the document upsert_book stored when the page was first crawled
StoredVersion(ver) ==
  NewDoc(BookDict(VersionBook(ver, None, 1), VersionHtml(ver), FileId(1), 1),
         ObjectId(<< >>))

\* the diffs handed to the reporter in the form the tests use: the price
\* under the key 'price'
ReporterPrices == {100, 104, 120, 150}

PriceDiffs ==
  {[k \in {"price"} |-> [old |-> a, new |-> b]] :
     <<a, b>> \in {ab \in ReporterPrices \X ReporterPrices : ab[1] # ab[2]}}

DetectInit ==
  /\ OtherIdle
  /\ \E ver \in DetectVersions : books = << StoredVersion(ver) >>
  /\ changes = << >>
  /\ now = 1
  /\ opCount = 1
  /\ changing_field = "title"
  /\ unique_source_url = FALSE
  /\ upw = [w \in Upserters |-> IdleWorker]
  /\ CrawlIdle
  /\ change_records = << >>
  /\ notifications = << >>
  /\ significant_log = << >>
  /\ reporter_has_store \in BOOLEAN
  /\ det = NoDet
  /\ detCount = 0

\* detect_changes and summarize_changes applied to the stored document and
\* a later version of the page
Summarize(ver) ==
  LET chg == detect_changes(books[1], VersionBook(ver, None, now))
  IN /\ detCount < MaxDetectOps
     /\ detCount' = detCount + 1
     /\ det' = [NoDet EXCEPT !.op = "summarize", !.changes = chg,
                  !.significant = summarize_changes(chg).has_significant_changes]
     /\ UNCHANGED <<books, changes, now, opCount, storeVars, crawlVars, otherVars,
                    change_records, notifications, significant_log,
                    reporter_has_store>>

\* BookChangeTracker.process_book_update (src/scheduler/change_tracker.py
\* lines 49-68) for a Book that carries the id of the stored document
ProcessBookUpdate(ver) ==
  LET book == VersionBook(ver, books[1]._id, now + 1)
      chg == find_content_changes(books, book, VersionHtml(ver))
  IN /\ detCount < MaxDetectOps
     /\ detCount' = detCount + 1
     /\ now' = now + 1
     /\ IF DOMAIN chg = {}
        THEN /\ det' = [NoDet EXCEPT !.op = "tracker"]
             /\ UNCHANGED <<changes, significant_log>>
        ELSE /\ changes' = Append(changes, ChangeDoc(book.id, chg, now'))
             /\ significant_log' =
                  IF is_significant_change(chg)
                  THEN Append(significant_log, book.id) ELSE significant_log
             /\ det' = [NoDet EXCEPT !.op = "tracker", !.changes = chg,
                          !.significant = is_significant_change(chg),
                          !.recorded = Len(changes') = Len(changes) + 1]
     /\ UNCHANGED <<books, opCount, storeVars, crawlVars, otherVars, change_records,
                    notifications, reporter_has_store>>

\* ChangeReporter.record_change (scheduler/reporting.py lines 51-72): the
\* record is inserted; for a diff _is_significant_change accepts, self.store
\* is read, which raises AttributeError unless a store was attached
ReporterRecordChange(book_id, chg) ==
  LET sig == reporter_is_significant_change(chg)
  IN /\ detCount < MaxDetectOps
     /\ detCount' = detCount + 1
     /\ now' = now + 1
     /\ change_records' = Append(change_records, ChangeRecord(book_id, chg, now'))
     /\ notifications' =
          IF sig /\ reporter_has_store
          THEN notifications \o reporter_notify(books, book_id, chg)
          ELSE notifications
     /\ det' = [NoDet EXCEPT !.op = "reporter", !.changes = chg,
                  !.significant = sig,
                  !.recorded = Len(change_records') = Len(change_records) + 1,
                  !.notified = Len(notifications') - Len(notifications),
                  !.raised = sig /\ ~reporter_has_store]
     /\ UNCHANGED <<books, changes, opCount, storeVars, crawlVars, otherVars,
                    significant_log, reporter_has_store>>

DetectNext ==
  \/ \E ver \in DetectVersions : Summarize(ver)
  \/ \E ver \in DetectVersions : ProcessBookUpdate(ver)
  \/ \E id \in {books[1]._id, ObjectId(books)} :
       \E chg \in {detect_changes(books[1], VersionBook(ver, None, now)) :
                     ver \in DetectVersions} \cup PriceDiffs :
         ReporterRecordChange(id, chg)

SpecDetect == DetectInit /\ [][DetectNext]_vars

(***************************************************************************)
(* Properties of upsert_book.  A finished call is observed in the state    *)
(* where its coroutine is at "done": existing is the document it read,     *)
(* book_dict the document it wrote, emitted the number of change documents *)
(* it inserted.                                                            *)
(***************************************************************************)
Finished(w) == upw[w].pc = "done"

DiffFields(s) == {k \in TrackedFields : s.existing[k] # s.book_dict[k]}

\* the values the caller supplies: every key but the two upsert_book sets
\* itself from the clock and the snapshot upload
CallerKeys == BookKeys \ {"crawl_timestamp", "raw_html_snapshot_path"}

IdenticalInput(s) == \A k \in CallerKeys : s.existing[k] = s.book_dict[k]

\* C5: an upsert of a stored source_url with field values identical to the
\* stored ones inserts no change document.
C5_IdenticalUpsertNoChange ==
  \A w \in Upserters :
    (Finished(w) /\ upw[w].existing # NoDoc /\ IdenticalInput(upw[w]))
      => upw[w].emitted = 0

\* C6: an upsert of a stored source_url with exactly one tracked field
\* changed inserts exactly one change document, for the document it read,
\* whose changes hold {field: {old: stored value, new: new value}}: the
\* update step inserts none, the step after it inserts that one and returns.
C6_OneFieldOneChangeRecord ==
  [][\A w \in Upserters : \A f \in TrackedFields :
       (upw[w].existing # NoDoc /\ DiffFields(upw[w]) = {f} /\ upw'[w] # upw[w])
         => /\ upw[w].pc = "found"
                => upw'[w].pc = "record" /\ changes' = changes
            /\ upw[w].pc = "record"
                => /\ upw'[w].pc = "done"
                   /\ Len(changes') = Len(changes) + 1
                   /\ SubSeq(changes', 1, Len(changes)) = changes
                   /\ LET c == changes'[Len(changes')]
                      IN /\ c.book_id = upw[w].existing._id
                         /\ c.change_type = "update"
                         /\ f \in DOMAIN c.changes
                         /\ c.changes[f] = [old |-> upw[w].existing[f],
                                            new |-> upw[w].book_dict[f]]
                         /\ DOMAIN c.changes \cap TrackedFields = {f}]_vars

C6_Witness ==
  \E w \in Upserters :
    /\ Finished(w) /\ upw[w].existing # NoDoc
    /\ DiffFields(upw[w]) = {"price_incl_tax"}
    /\ upw[w].existing["price_incl_tax"] = 100
    /\ upw[w].book_dict["price_incl_tax"] = 150
    /\ Len(changes) = 1

\* C7: a change document is inserted only when a tracked field differs from
\* the stored value.
C7_NoTrackedDiffNoChange ==
  \A w \in Upserters :
    (Finished(w) /\ upw[w].existing # NoDoc /\ DiffFields(upw[w]) = {})
      => upw[w].emitted = 0

\* C8: when no document is stored for the source_url, upsert_book inserts
\* the document and inserts no change document.
C8_InsertEmitsNoChange ==
  [][\A w \in Upserters :
       (upw[w].pc = "found" /\ upw[w].existing = NoDoc /\ upw'[w].pc = "done")
         => /\ changes' = changes
            /\ books' = Append(books, books'[Len(books')])
            /\ books'[Len(books')]._id = upw'[w].result
            /\ \A k \in BookKeys : books'[Len(books')][k] = upw[w].book_dict[k]]_vars

C8_Witness ==
  \E w \in Upserters :
    /\ Finished(w) /\ upw[w].existing = NoDoc
    /\ Len(books) = 1 /\ books[1]._id = upw[w].result
    /\ changes = << >>

(***************************************************************************)
(* Properties of a crawl run                                               *)
(***************************************************************************)
Stored(u) == get_book_by_url(books, u) # NoDoc

C2_Always503RetriedToCeiling ==
  \A u \in ItemUrls(site) :
    (behav[u] = "always_503" /\ u \in failed_urls) => requests[u] = retry_attempts

\* C3: a fetch answered 4xx issues exactly one request and is not retried;
\* the url is put into failed_urls and no record is upserted for it.
C3_ClientErrorNotRetried ==
  \A u \in ItemUrls(site) :
    behav[u] = "not_found" =>
      /\ requests[u] <= 1
      /\ ~Stored(u)
      /\ requests[u] = 1 => u \in failed_urls
      /\ \A i \in DOMAIN tasks : tasks[i].url = u => tasks[i].result = None
      /\ runPc = "done" => ~stats.successful /\ stats.failed_urls = 1

C3_Witness ==
  /\ runPc = "done"
  /\ \E u \in ItemUrls(site) :
       /\ behav[u] = "not_found" /\ requests[u] = 1 /\ fetchCalls[u] = 1
       /\ u \in failed_urls /\ ~Stored(u)

\* C4: an item whose fetch fails transiently (5xx, network error or timeout)
\* fewer times than the retry ceiling and then answers 200 is upserted,
\* counted and not failed; on the 2 x 3 site with one item answering 500
\* once the run ends with total 6, failed 0 and one retried fetch.
C4_TransientFailureRecovered ==
  runPc = "done" =>
    /\ \A u \in ItemUrls(site) :
         behav[u] \in {"once_500", "net_once"} => (u \notin failed_urls /\ Stored(u))
    /\ (site = "two_by_three" /\ \E u \in ItemUrls(site) : behav[u] = "once_500")
         => /\ stats.total_books = 6
            /\ stats.failed_urls = 0
            /\ Cardinality({u \in ItemUrls(site) : requests[u] = 2}) = 1

(***************************************************************************)
(* Properties of change classification and notification                    *)
(***************************************************************************)
\* the classification the specification describes: a change of title,
\* description or category, a price change of more than the threshold, or
\* availability going from in stock to out of stock
Exceeds(c) ==
  is_significant_price_change(PriceOrZero(c.old), PriceOrZero(c.new))

DescribedSignificant(chg) ==
  \/ DOMAIN chg \cap significant_fields # {}
  \/ \E f \in price_fields : f \in DOMAIN chg /\ Exceeds(chg[f])
  \/ /\ "availability" \in DOMAIN chg
     /\ chg["availability"].old = InStock
     /\ chg["availability"].new = OutOfStock

\* C9: a diff is classified significant exactly when it touches title,
\* description or category, or a price field by more than the threshold, or
\* takes availability from in stock to out of stock; a price going from 100
\* to 150 is significant and one going from 100 to 104 is not.
C9_SignificantIffDescribed ==
  det.op \in {"summarize", "tracker"} =>
    /\ det.significant <=> DescribedSignificant(det.changes)
    /\ \A f \in price_fields :
         (DOMAIN det.changes \cap TrackedFields = {f} /\ det.changes[f].old = 100)
           => /\ det.changes[f].new = 150 => det.significant
              /\ det.changes[f].new = 104 => ~det.significant

\* a diff either classifier of the code accepts
CodeSignificant(chg) ==
  is_significant_change(chg) \/ reporter_is_significant_change(chg)

\* C10: every recorded diff that is significant invokes the notifier with
\* the title of the record and the old and new value of the field; a diff
\* that is not significant is recorded and invokes no notifier.
C10_SignificantDiffNotifies ==
  (det.op \in {"tracker", "reporter"} /\ DOMAIN det.changes # {}) =>
    /\ det.recorded
    /\ CodeSignificant(det.changes) =>
         /\ det.notified = 1
         /\ \E f \in DOMAIN det.changes :
              LET m == notifications[Len(notifications)]
              IN /\ m.book_title = books[1].title
                 /\ m.old_price = det.changes[f].old
                 /\ m.new_price = det.changes[f].new
    /\ ~CodeSignificant(det.changes) => det.notified = 0

(***************************************************************************)
(* Resuming a run from the checkpoint                                      *)
(***************************************************************************)
\* the urls the earlier run stored: books a resumed run finds at its start
PreviousBooksUrls ==
  IF checkpoint = None THEN {}
  ELSE {books[i].source_url : i \in 1..Len(books)} \cap (1..checkpoint)

\* C11: once a resumed run has finished its initialisation, the seen set
\* holds the url of every item already in the repository, and so none of
\* them is fetched by the run
C11_ResumeSeedsSeenSet ==
  (resume_url # None /\ runPc # "start") =>
    /\ runPc # "raised"
    /\ PreviousBooksUrls \subseteq seen_urls
    /\ \A u \in PreviousBooksUrls : fetchCalls[u] = 0

\* the position, in the index's category list, of the first category one
\* of whose pages lists the url u; 0 when there is none
CategoryPages(st, j) ==
  LET first == extract_categories(st)[j].url
      next == get_next_page_url(st, first)
  IN IF next = 0 THEN {first} ELSE {first, next}

Lists(st, j, u) ==
  \E p \in CategoryPages(st, j) :
    \E k \in 1..Len(extract_books_from_list(st, p)) :
      extract_books_from_list(st, p)[k] = u

CategoryOf(st, u) ==
  LET js == {j \in 1..Len(extract_categories(st)) : Lists(st, j, u)}
  IN IF js = {} THEN 0 ELSE CHOOSE j \in js : \A k \in js : j <= k

\* C12: when a run resumed from a checkpointed item url is over and every
\* page answers, the categories before the one containing that url were
\* not entered, and that category and every later one were
C12_ResumeRestartsAtCheckpointCategory ==
  (checkpoint # None /\ runPc \in {"done", "raised"}
     /\ \A u \in AllUrls : behav[u] = "ok") =>
    \A j \in 1..Len(extract_categories(site)) :
      IF j < CategoryOf(site, checkpoint)
      THEN requests[extract_categories(site)[j].url] = 0
      ELSE requests[extract_categories(site)[j].url] >= 1

(***************************************************************************)
(* set_checkpoint and get_last_checkpoint called by concurrent worker      *)
(* tasks.  update_one(filter, update, upsert=True) is served in two steps: *)
(* the server looks for a matching document and updates it, or, finding    *)
(* none, inserts one; only a unique index on the filter's key keeps two    *)
(* concurrent upserts from both inserting.                                 *)
(***************************************************************************)
MaxCheckpointWrites == 3

CheckpointValues == 1..2

\* the state of the stores and of the crawler when they are not running
StoreIdle ==
  /\ books = << >>
  /\ changes = << >>
  /\ now = 1
  /\ opCount = 0
  /\ changing_field = "title"
  /\ unique_source_url = FALSE
  /\ upw = [w \in Upserters |-> IdleWorker]

notCkVars ==
  <<books, changes, now, opCount, storeVars, crawlVars, detectVars, consVars, schedVars,
    jobVars,
    moreVars>>

\* init_indexes lines 42-47 create the unique index; scheduler start calls
\* init_indexes, run_crawler.py does not, fix_checkpoint_index.py drops it
CheckpointInit ==
  /\ MoreIdle
  /\ StoreIdle
  /\ CrawlIdle
  /\ DetectIdle
  /\ checkpoints = << >>
  /\ unique_checkpoint_type \in BOOLEAN
  /\ ckw = [w \in CkWorkers |-> IdleCk]
  /\ ckWritten = {}
  /\ ckCount = 0
  /\ ckRead = [t \in CheckpointTypes |-> None]
  /\ run_calls = << >>
  /\ ConsIdle
  /\ SchedIdle
  /\ JobsIdle

MatchingCheckpoints(cs, t) == {i \in 1..Len(cs) : cs[i].checkpoint_type = t}

FirstCheckpoint(cs, t) ==
  CHOOSE i \in MatchingCheckpoints(cs, t) : \A j \in MatchingCheckpoints(cs, t) : i <= j

\* get_last_checkpoint lines 157-167: find_one, its 'value' or None
get_last_checkpoint(cs, t) ==
  IF MatchingCheckpoints(cs, t) = {} THEN None ELSE cs[FirstCheckpoint(cs, t)].value

\* the $set of set_checkpoint applied to the first matching document
SetCheckpointDoc(cs, c) ==
  [i \in 1..Len(cs) |->
     IF i = FirstCheckpoint(cs, c.type)
     THEN [cs[i] EXCEPT !.value = c.value, !.timestamp = c.timestamp]
     ELSE cs[i]]

\* set_checkpoint lines 169-185: the update_one command is sent
SetCheckpointCall(w, v, t) ==
  /\ ckw[w].pc = "idle"
  /\ ckCount < MaxCheckpointWrites
  /\ ckCount' = ckCount + 1
  /\ ckw' = [ckw EXCEPT ![w] = [pc |-> "sent", type |-> t, value |-> v,
                                 timestamp |-> ckCount']]
  /\ ckWritten' = ckWritten \cup {<<t, v>>}
  /\ UNCHANGED <<notCkVars, run_calls, checkpoints, unique_checkpoint_type, ckRead>>

\* the server's query phase: a matching document is updated, none means insert
SetCheckpointFind(w) ==
  /\ ckw[w].pc = "sent"
  /\ IF MatchingCheckpoints(checkpoints, ckw[w].type) # {}
     THEN /\ checkpoints' = SetCheckpointDoc(checkpoints, ckw[w])
          /\ ckw' = [ckw EXCEPT ![w] = IdleCk]
     ELSE /\ ckw' = [ckw EXCEPT ![w].pc = "insert"]
          /\ UNCHANGED checkpoints
  /\ UNCHANGED <<notCkVars, run_calls, unique_checkpoint_type, ckWritten, ckCount, ckRead>>

\* the server's insert phase: with the unique index a duplicate key makes the
\* server apply the upsert as an update of the document that won
SetCheckpointInsert(w) ==
  /\ ckw[w].pc = "insert"
  /\ IF unique_checkpoint_type /\ MatchingCheckpoints(checkpoints, ckw[w].type) # {}
     THEN checkpoints' = SetCheckpointDoc(checkpoints, ckw[w])
     ELSE checkpoints' = Append(checkpoints,
                                [checkpoint_type |-> ckw[w].type, value |-> ckw[w].value,
                                 timestamp |-> ckw[w].timestamp])
  /\ ckw' = [ckw EXCEPT ![w] = IdleCk]
  /\ UNCHANGED <<notCkVars, run_calls, unique_checkpoint_type, ckWritten, ckCount, ckRead>>

\* get_last_checkpoint(t) is called
GetLastCheckpoint(t) ==
  /\ ckRead' = [ckRead EXCEPT ![t] = get_last_checkpoint(checkpoints, t)]
  /\ UNCHANGED <<notCkVars, run_calls, checkpoints, unique_checkpoint_type, ckw, ckWritten, ckCount>>

CheckpointNext ==
  \/ \E w \in CkWorkers :
       \/ \E v \in CheckpointValues, t \in CheckpointTypes : SetCheckpointCall(w, v, t)
       \/ SetCheckpointFind(w)
       \/ SetCheckpointInsert(w)
  \/ \E t \in CheckpointTypes : GetLastCheckpoint(t)

SpecCheckpoint == CheckpointInit /\ [][CheckpointNext]_vars

\* C13: after any sequence of checkpoint writes, concurrent ones included,
\* the store holds at most one checkpoint per checkpoint type, and a read of
\* a type's checkpoint returns the value of a write of that type
C13_OneCheckpointPerType ==
  \A t \in CheckpointTypes :
    /\ Cardinality(MatchingCheckpoints(checkpoints, t)) <= 1
    /\ ckRead[t] # None => <<t, ckRead[t]>> \in ckWritten

(***************************************************************************)
(* consolidate_changes (crawler/store.py lines 445-478), run by the        *)
(* maintenance job while upsert_book keeps recording changes               *)
(***************************************************************************)
MaxTime == 3

MaxChangeDocs == 2

MaxConsolidations == 2

ConsBooks == 1..2

\* the indexes of the documents of book b the $match stage selects
OlderThan(chs, b, older_than) ==
  {i \in 1..Len(chs) : chs[i].book_id = b /\ chs[i].timestamp < older_than}

MinTimestamp(chs, is) ==
  chs[CHOOSE i \in is : \A j \in is : chs[i].timestamp <= chs[j].timestamp].timestamp

MaxTimestamp(chs, is) ==
  chs[CHOOSE i \in is : \A j \in is : chs[i].timestamp >= chs[j].timestamp].timestamp

\* the aggregation pipeline, lines 451-459: one group per book_id that has a
\* document older than older_than, whatever the document's change_type
RECURSIVE Pipeline(_, _, _)
Pipeline(chs, bs, older_than) ==
  IF bs = {} THEN << >>
  ELSE LET b == CHOOSE x \in bs : \A y \in bs : x <= y
           is == OlderThan(chs, b, older_than)
           rest == Pipeline(chs, bs \ {b}, older_than)
       IN IF is = {} THEN rest
          ELSE <<[_id |-> b, change_count |-> Cardinality(is),
                  first_change |-> MinTimestamp(chs, is),
                  last_change |-> MaxTimestamp(chs, is)]>> \o rest

\* SummaryDoc dated at the last change it summarises
SummaryDoc_DatedLastChange(g, t) ==
  [book_id |-> g._id, change_type |-> "consolidated", timestamp |-> g.last_change,
   summary |-> [change_count |-> g.change_count,
                date_range |-> <<g.first_change, g.last_change>>]]

\* the summary document of lines 467-475
SummaryDoc(g, t) ==
  [book_id |-> g._id, change_type |-> "consolidated", timestamp |-> t,
   summary |-> [change_count |-> g.change_count,
                date_range |-> <<g.first_change, g.last_change>>]]

\* delete_many of lines 463-466
RECURSIVE DeleteOlder(_, _, _)
DeleteOlder(chs, b, older_than) ==
  IF chs = << >> THEN << >>
  ELSE (IF Head(chs).book_id = b /\ Head(chs).timestamp < older_than
        THEN << >> ELSE <<Head(chs)>>) \o DeleteOlder(Tail(chs), b, older_than)

notConsVars ==
  <<books, opCount, storeVars, crawlVars, detectVars, ckVars, schedVars, jobVars,
    moreVars>>

ConsolidateInit ==
  /\ MoreIdle
  /\ StoreIdle
  /\ CrawlIdle
  /\ DetectIdle
  /\ CkIdle
  /\ ConsIdle
  /\ SchedIdle
  /\ JobsIdle

\* record_change (lines 143-155) after an upsert that found a difference
RecordChange(b) ==
  /\ Len(changes) < MaxChangeDocs
  /\ changes' = Append(changes, ChangeDoc(b, [title |-> [old |-> 1, new |-> 2]], now))
  /\ UNCHANGED <<notConsVars, now, consVars>>

\* time passes
Tick ==
  /\ now < MaxTime
  /\ now' = now + 1
  /\ UNCHANGED <<notConsVars, changes, consVars>>

\* lines 451-462: the pipeline is run and its cursor opened
ConsolidateBegin(older_than) ==
  /\ cons.pc \in {"idle", "returned"}
  /\ consCount < MaxConsolidations
  /\ consCount' = consCount + 1
  /\ cons' = [pc |-> "loop", older_than |-> older_than,
              groups |-> Pipeline(changes, ConsBooks, older_than),
              consolidated |-> 0, before |-> changes,
              previous |-> cons.older_than, previous_count |-> cons.consolidated]
  /\ UNCHANGED <<notConsVars, now, changes>>

\* lines 462-466: the documents of the next group are deleted
ConsolidateDelete ==
  /\ cons.pc = "loop"
  /\ cons.groups # << >>
  /\ changes' = DeleteOlder(changes, Head(cons.groups)._id, cons.older_than)
  /\ cons' = [cons EXCEPT !.pc = "insert"]
  /\ UNCHANGED <<notConsVars, now, consCount>>

\* lines 467-476: the group's summary is inserted and counted
ConsolidateInsert ==
  /\ cons.pc = "insert"
  /\ changes' = Append(changes, SummaryDoc(Head(cons.groups), now))
  /\ cons' = [cons EXCEPT !.pc = "loop", !.groups = Tail(@),
                           !.consolidated = @ + 1]
  /\ UNCHANGED <<notConsVars, now, consCount>>

\* line 478: the cursor is exhausted, the count returned
ConsolidateReturn ==
  /\ cons.pc = "loop"
  /\ cons.groups = << >>
  /\ cons' = [cons EXCEPT !.pc = "returned"]
  /\ UNCHANGED <<notConsVars, now, changes, consCount>>

ConsolidateNext ==
  \/ \E b \in ConsBooks : RecordChange(b)
  \/ Tick
  \/ \E older_than \in 1..MaxTime : older_than <= now /\ ConsolidateBegin(older_than)
  \/ ConsolidateDelete
  \/ ConsolidateInsert
  \/ ConsolidateReturn

SpecConsolidate == ConsolidateInit /\ [][ConsolidateNext]_vars

\* the ChangeRecords of book b older than the cutoff when the call began
OldChangeRecords(b) ==
  {i \in OlderThan(cons.before, b, cons.older_than) :
     cons.before[i].change_type = "update"}

\* the summaries of book b the call inserted
NewSummaries(b) ==
  {i \in 1..Len(changes) :
     /\ changes[i].book_id = b
     /\ changes[i].change_type = "consolidated"
     /\ \A j \in 1..Len(cons.before) : cons.before[j] # changes[i]}

\* C20: when consolidate_changes(cutoff) has returned, every record that had
\* k >= 1 ChangeRecords older than the cutoff has none of them left and has
\* exactly one new summary, with change count k and the date range from the
\* earliest to the latest original; the returned count is the number of
\* such records
C20_ConsolidationSummarisesOldChanges ==
  cons.pc = "returned" =>
    /\ \A b \in ConsBooks :
         LET old == OldChangeRecords(b)
         IN old # {} =>
              /\ \A i \in 1..Len(changes) :
                   ~(changes[i].book_id = b /\ changes[i].change_type = "update"
                       /\ changes[i].timestamp < cons.older_than)
              /\ Cardinality(NewSummaries(b)) = 1
              /\ \A i \in NewSummaries(b) :
                   /\ changes[i].summary.change_count = Cardinality(old)
                   /\ changes[i].summary.date_range =
                        <<MinTimestamp(cons.before, old), MaxTimestamp(cons.before, old)>>
    /\ cons.consolidated = Cardinality({b \in ConsBooks : OldChangeRecords(b) # {}})

\* the same, for calls that find no summary of an earlier call among the
\* documents older than the cutoff
FirstConsolidationSummarises ==
  (\A j \in 1..Len(cons.before) :
     cons.before[j].timestamp < cons.older_than => cons.before[j].change_type = "update")
  => C20_ConsolidationSummarisesOldChanges

(***************************************************************************)
(* BookScheduler (scheduler/scheduler.py): the four cron jobs of           *)
(* _configure_jobs, run by an AsyncIOScheduler created without a job store *)
(* (line 27), so the jobs and their next fire times live in the memory of  *)
(* the process.  Time is counted in ticks of 5 minutes since midnight.     *)
(* The scheduler wakes up when a job is due, possibly late; it then        *)
(* collects the fire times of every due job up to now, keeps the last one  *)
(* (coalesce), submits it unless max_instances instances are running, and  *)
(* moves the job to its next fire time after now.  A submitted run whose   *)
(* fire time is older than the misfire grace time is not executed.  The    *)
(* clock value t stands for the instants from t up to t + 1.               *)
(***************************************************************************)
TicksPerDay == 24 * 12

\* the process is first started at 01:50
FirstStart == 2 * 12 - 2

MaxTicks == 8

MaxRestarts == 1

\* the triggers of lines 44, 55, 66 and 77
Fires(j, t) ==
  CASE j = "full_site_scan" -> t % TicksPerDay = 2 * 12
    [] j = "change_detection" -> t % (4 * 12) = 0
    [] j = "maintenance" -> t % TicksPerDay = 3 * 12
    [] j = "health_check" -> t % 3 = 0

\* misfire_grace_time of lines 49, 60, 71 and 82, in ticks
misfire_grace_time(j) ==
  CASE j = "full_site_scan" -> 3600 \div 300
    [] j = "change_detection" -> 1800 \div 300
    [] j = "maintenance" -> 3600 \div 300
    [] j = "health_check" -> 300 \div 300

\* max_instances with two instances allowed
max_instances_Two(j) ==
  2

\* max_instances of lines 48, 59, 70 and 81
max_instances(j) ==
  1

\* coalesce of lines 47, 58, 69 and 80
coalesce(j) == TRUE

\* trigger.get_next_fire_time: the first fire time at or after t
NextFireTime(j, t) ==
  CHOOSE f \in t..(t + TicksPerDay) :
    Fires(j, f) /\ \A g \in t..(f - 1) : ~Fires(j, g)

\* job._get_run_times(now): the fire times from next_run_time up to now
RunTimes(j, t) == {f \in next_run_time[j]..t : Fires(j, f)}

\* the run times submitted: the last one when the job coalesces
Submitted(j, t) ==
  IF coalesce(j)
  THEN {f \in RunTimes(j, t) : \A g \in RunTimes(j, t) : g <= f}
  ELSE RunTimes(j, t)

Due(t) == {j \in JobIds : next_run_time[j] <= t}

\* the due jobs the executor refuses: max_instances instances are running
Refused(t) == {j \in Due(t) : Submitted(j, t) # {} /\ instances[j] >= max_instances(j)}

\* the <<job, run_time>> pairs of a set of jobs at time t
Runs(js, t) == {jr \in js \X (0..t) : jr[2] \in Submitted(jr[1], t)}

\* run_job: a run time within the misfire grace time is executed
Executed(t) ==
  {jr \in Runs(Due(t) \ Refused(t), t) : t - jr[2] <= misfire_grace_time(jr[1])}

RECURSIVE ExecRecords(_, _)
ExecRecords(jrs, t) ==
  IF jrs = {} THEN << >>
  ELSE LET jr == CHOOSE x \in jrs : TRUE
       IN <<[job |-> jr[1], run_time |-> jr[2], at |-> t]>>
            \o ExecRecords(jrs \ {jr}, t)

notSchedVars ==
  <<books, changes, now, opCount, storeVars, crawlVars, detectVars, ckVars, consVars,
    jobVars,
    moreVars>>

\* BookScheduler() and start(): the jobs are added with their first fire time
SchedInit ==
  /\ MoreIdle
  /\ StoreIdle
  /\ CrawlIdle
  /\ DetectIdle
  /\ CkIdle
  /\ ConsIdle
  /\ JobsIdle
  /\ clock = FirstStart
  /\ schedUp = TRUE
  /\ next_run_time = [j \in JobIds |-> NextFireTime(j, FirstStart + 1)]
  /\ instances = [j \in JobIds |-> 0]
  /\ execs = << >>
  /\ dropped = {}
  /\ missed = {}
  /\ restarts = 0

\* five minutes pass
ClockTick ==
  /\ clock < FirstStart + MaxTicks
  /\ clock' = clock + 1
  /\ UNCHANGED <<notSchedVars, schedUp, next_run_time, instances, execs, dropped,
                 missed, restarts>>

\* the scheduler wakes up and processes the due jobs
ProcessJobs ==
  /\ schedUp
  /\ Due(clock) # {}
  /\ dropped' = dropped \cup Runs(Refused(clock), clock)
  /\ missed' = missed \cup (Runs(Due(clock) \ Refused(clock), clock) \ Executed(clock))
  /\ execs' = execs \o ExecRecords(Executed(clock), clock)
  /\ instances' = [j \in JobIds |->
                     instances[j] + Cardinality({jr \in Executed(clock) : jr[1] = j})]
  /\ next_run_time' = [j \in JobIds |->
                         IF j \in Due(clock) THEN NextFireTime(j, clock + 1)
                         ELSE next_run_time[j]]
  /\ UNCHANGED <<notSchedVars, clock, schedUp, restarts>>

\* an instance of job j ends
JobEnds(j) ==
  /\ instances[j] > 0
  /\ instances' = [instances EXCEPT ![j] = @ - 1]
  /\ UNCHANGED <<notSchedVars, clock, schedUp, next_run_time, execs, dropped, missed,
                 restarts>>

\* the process stops (shutdown, or a crash): its jobs end with it
ProcessStops ==
  /\ schedUp
  /\ restarts < MaxRestarts
  /\ schedUp' = FALSE
  /\ instances' = [j \in JobIds |-> 0]
  /\ UNCHANGED <<notSchedVars, clock, next_run_time, execs, dropped, missed, restarts>>

\* the process is started again: BookScheduler() adds the jobs anew, each
\* with its first fire time after the instant of the start
ProcessStarts ==
  /\ ~schedUp
  /\ schedUp' = TRUE
  /\ restarts' = restarts + 1
  /\ next_run_time' = [j \in JobIds |-> NextFireTime(j, clock + 1)]
  /\ UNCHANGED <<notSchedVars, clock, instances, execs, dropped, missed>>

SchedNext ==
  \/ ClockTick
  \/ ProcessJobs
  \/ \E j \in JobIds : JobEnds(j)
  \/ ProcessStops
  \/ ProcessStarts

SpecSched == SchedInit /\ [][SchedNext]_vars

ExecsOf(j, t) == {i \in 1..Len(execs) : execs[i].job = j /\ execs[i].run_time = t}

\* C14: at most one instance of a job type is executing at any time, and a
\* firing that arrives while an instance of its type is running is dropped:
\* it is not executed, neither then nor after the running instance ended
C14_SingletonExecution ==
  /\ \A j \in JobIds : instances[j] <= 1
  /\ \A jr \in dropped : ExecsOf(jr[1], jr[2]) = {}

\* a firing was dropped, the instance that was running has ended, and a
\* later firing of the job was executed
C14_Witness ==
  \E jr \in dropped :
    /\ instances[jr[1]] = 0
    /\ \E i \in 1..Len(execs) : execs[i].job = jr[1] /\ execs[i].run_time > jr[2]

\* the last fire time of job j at or before t, 0 - 1 when the process was
\* not yet started for the first time then
LastFire(j, t) ==
  LET fs == {f \in FirstStart..t : Fires(j, f)}
  IN IF fs = {} THEN 0 - 1 ELSE CHOOSE f \in fs : \A g \in fs : g <= f

\* C16: once the running scheduler has nothing due, the last firing of a
\* job has been executed once if the current time is within the job's
\* misfire grace time of it (and no instance of the job was running), no
\* run time is executed after its grace time, and none is executed twice
C16_MisfireGrace ==
  /\ \A j \in JobIds :
       (schedUp /\ next_run_time[j] > clock /\ LastFire(j, clock) >= 0
          /\ clock - LastFire(j, clock) <= misfire_grace_time(j)
          /\ <<j, LastFire(j, clock)>> \notin dropped)
       => Cardinality(ExecsOf(j, LastFire(j, clock))) = 1
  /\ \A i \in 1..Len(execs) :
       /\ execs[i].at - execs[i].run_time <= misfire_grace_time(execs[i].job)
       /\ Cardinality(ExecsOf(execs[i].job, execs[i].run_time)) = 1
       /\ \A k \in 1..Len(execs) :
            (execs[k].job = execs[i].job /\ execs[k].at = execs[i].at) => k = i

\* the same without the firings missed while the process was down
C16_MisfireGraceWhileRunning ==
  restarts = 0 /\ schedUp => C16_MisfireGrace

(***************************************************************************)
(* SchedulerJobs (scheduler/jobs.py): full_site_scan, detect_changes and   *)
(* maintenance, each wrapped in JobRun entries written by                  *)
(* record_scheduler_run (scheduler/db_setup.py lines 112-131), an          *)
(* insert_one into db.checkpoints that fails when the repository cannot be *)
(* reached or refuses the document.  A job type has one slot: its jobs are *)
(* added with max_instances=1, so a firing while the slot is taken is      *)
(* dropped.                                                                *)
(***************************************************************************)
MaxInvocations == 1

\* full_site_scan line 44 with one retry fewer
max_retries_Two ==
  3 - 1

\* full_site_scan line 44
max_retries ==
  3

\* record_scheduler_run: the entry inserted; inv tells the invocations apart
JobRun(j, status, r) ==
  [scheduler_type |-> j, status |-> status, inv |-> r.inv, attempt |-> r.attempt]

\* the except branch without the retry test: every failure is final
Failed_NoRetry(j, r, err) ==
  [r EXCEPT !.e = err, !.last_error = err, !.fails = @ + 1, !.pc = "record_error"]

\* an exception err leaves the try block: full_site_scan lines 78-79 and
\* 103-107 (a retry while attempt < max_retries), detect_changes lines
\* 159-171 and maintenance lines 224-236 (no retry)
Failed(j, r, err) ==
  [r EXCEPT !.e = err, !.last_error = err, !.fails = @ + 1,
            !.pc = IF j = "full_site_scan" /\ r.attempt < max_retries
                   THEN "sleep" ELSE "record_error"]

notJobVars ==
  <<books, changes, now, opCount, storeVars, crawlVars, detectVars, ckVars, consVars,
    schedVars,
    moreVars>>

JobsInit ==
  /\ MoreIdle
  /\ StoreIdle
  /\ CrawlIdle
  /\ DetectIdle
  /\ CkIdle
  /\ ConsIdle
  /\ SchedIdle
  /\ JobsIdle

\* the trigger of job j fires while its slot is free: lines 42-46, 109-117,
\* 173-181
JobFires(j) ==
  /\ jobInv[j].pc = "idle"
  /\ invCount < MaxInvocations
  /\ invCount' = invCount + 1
  /\ jobInv' = [jobInv EXCEPT ![j] =
                  [IdleJob EXCEPT !.pc = "record_running", !.inv = invCount',
                                  !.retry_delay = 1]]
  /\ UNCHANGED <<notJobVars, job_runs, error_alerts>>

\* the 'running' entry is written, inside the try block: lines 51-55,
\* 120-124, 184-188
RecordRunning(j, ok) ==
  /\ jobInv[j].pc = "record_running"
  /\ IF ok
     THEN /\ job_runs' = Append(job_runs, JobRun(j, "running", jobInv[j]))
          /\ jobInv' = [jobInv EXCEPT ![j].pc = "body"]
     ELSE /\ jobInv' = [jobInv EXCEPT ![j] =
                          Failed(j, @, [src |-> "running_write", n |-> @.attempt + 1])]
          /\ UNCHANGED job_runs
  /\ UNCHANGED <<notJobVars, error_alerts, invCount>>

\* the job body runs: the crawl of lines 57-61, the detection of lines
\* 126-141, the maintenance tasks of lines 190-209
JobBody(j, ok) ==
  /\ jobInv[j].pc = "body"
  /\ IF ok
     THEN jobInv' = [jobInv EXCEPT ![j].body_calls = @ + 1, ![j].pc = "record_success"]
     ELSE jobInv' = [jobInv EXCEPT ![j] =
                       Failed(j, [@ EXCEPT !.body_calls = @ + 1, !.body_fails = @ + 1],
                              [src |-> "body", n |-> @.body_calls + 1])]
  /\ UNCHANGED <<notJobVars, job_runs, error_alerts, invCount>>

\* the 'success' entry is written and the job returns: lines 63-76, 143-157,
\* 211-222
RecordSuccess(j, ok) ==
  /\ jobInv[j].pc = "record_success"
  /\ IF ok
     THEN /\ job_runs' = Append(job_runs, JobRun(j, "success", jobInv[j]))
          /\ jobInv' = [jobInv EXCEPT ![j].pc = "returned"]
     ELSE /\ jobInv' = [jobInv EXCEPT ![j] =
                          Failed(j, @, [src |-> "success_write", n |-> @.attempt + 1])]
          /\ UNCHANGED job_runs
  /\ UNCHANGED <<notJobVars, error_alerts, invCount>>

\* full_site_scan lines 103-107: the backoff sleep, then the next attempt
RetrySleep(j) ==
  /\ jobInv[j].pc = "sleep"
  /\ jobInv' = [jobInv EXCEPT ![j].sleeps = Append(@, jobInv[j].retry_delay),
                              ![j].retry_delay = @ * 2,
                              ![j].attempt = @ + 1,
                              ![j].pc = "record_running"]
  /\ UNCHANGED <<notJobVars, job_runs, error_alerts, invCount>>

\* the 'error' entry is written: lines 80-90, 160-169, 225-234; when this
\* write raises, its exception leaves the job in place of e
RecordError(j, ok) ==
  /\ jobInv[j].pc = "record_error"
  /\ IF ok
     THEN /\ job_runs' = Append(job_runs, JobRun(j, "error", jobInv[j]))
          /\ jobInv' = [jobInv EXCEPT
                          ![j].pc = IF j = "full_site_scan" THEN "notify" ELSE "raised",
                          ![j].raised = IF j = "full_site_scan" THEN @ ELSE jobInv[j].e]
     ELSE /\ jobInv' = [jobInv EXCEPT
                          ![j].pc = "raised",
                          ![j].last_error = [src |-> "error_write", n |-> @.n],
                          ![j].raised = [src |-> "error_write", n |-> jobInv[j].e.n]]
          /\ UNCHANGED job_runs
  /\ UNCHANGED <<notJobVars, error_alerts, invCount>>

\* full_site_scan lines 92-101: notify_error(critical=True), then raise
NotifyError(j) ==
  /\ jobInv[j].pc = "notify"
  /\ error_alerts' = Append(error_alerts,
                            [component |-> j, critical |-> TRUE, inv |-> jobInv[j].inv])
  /\ jobInv' = [jobInv EXCEPT ![j].pc = "raised", ![j].raised = jobInv[j].e]
  /\ UNCHANGED <<notJobVars, job_runs, invCount>>

\* the invocation is over: the slot is free for the next firing
JobDone(j) ==
  /\ jobInv[j].pc \in {"returned", "raised"}
  /\ jobInv' = [jobInv EXCEPT ![j].pc = "idle"]
  /\ UNCHANGED <<notJobVars, job_runs, error_alerts, invCount>>

JobsNext ==
  \E j \in JobTypes :
    \/ JobFires(j)
    \/ \E ok \in BOOLEAN : RecordRunning(j, ok)
    \/ \E ok \in BOOLEAN : JobBody(j, ok)
    \/ \E ok \in BOOLEAN : RecordSuccess(j, ok)
    \/ RetrySleep(j)
    \/ \E ok \in BOOLEAN : RecordError(j, ok)
    \/ NotifyError(j)
    \/ JobDone(j)

SpecJobs == JobsInit /\ [][JobsNext]_vars

\* the running entries of type j no terminal entry of type j follows
OpenRunning(j) ==
  {i \in 1..Len(job_runs) :
     /\ job_runs[i].scheduler_type = j
     /\ job_runs[i].status = "running"
     /\ \A k \in (i + 1)..Len(job_runs) :
          ~(job_runs[k].scheduler_type = j /\ job_runs[k].status \in {"success", "error"})}

\* C15: at every moment a job type has at most one running JobRun entry
\* that no terminal entry of the type follows, whether the entries come
\* from two firings or from the attempts of one invocation
C15_OneOpenRunningEntry ==
  \A j \in JobTypes : Cardinality(OpenRunning(j)) <= 1

FullScan == jobInv["full_site_scan"]

Over(r) == r.pc \in {"returned", "raised"} \/ (r.pc = "idle" /\ r.inv # 0)

\* C17: a full-scan invocation whose body was invoked and failed in every
\* attempt invoked the body 4 times, slept 3 times, for 1, 2 and 4 seconds,
\* and ended by raising its last error
C17_AlwaysFailingScan ==
  (Over(FullScan) /\ FullScan.body_fails = FullScan.attempt + 1) =>
    /\ FullScan.body_calls = 4
    /\ FullScan.sleeps = <<1, 2, 4>>
    /\ FullScan.raised # NoError
    /\ FullScan.raised = FullScan.last_error

C17_Witness ==
  /\ FullScan.pc = "raised"
  /\ FullScan.body_fails = 4
  /\ FullScan.raised = [src |-> "body", n |-> 4]

ErrorEntries(inv) ==
  {i \in 1..Len(job_runs) : job_runs[i].inv = inv /\ job_runs[i].status = "error"}

AlertsOf(inv) == {i \in 1..Len(error_alerts) : error_alerts[i].inv = inv}

\* C18: a full-scan invocation has an error entry or a critical alert only
\* when its fourth and last attempt has failed, and an invocation one of
\* whose attempts succeeded ended with a success entry and has neither
C18_ErrorOnlyAfterRetries ==
  /\ (ErrorEntries(FullScan.inv) # {} \/ AlertsOf(FullScan.inv) # {}) =>
       (FullScan.attempt = 3 /\ FullScan.fails = 4)
  /\ \A i \in AlertsOf(FullScan.inv) : error_alerts[i].critical
  /\ (FullScan.inv # 0 /\ FullScan.pc \in {"returned", "idle"} /\ FullScan.raised = NoError) =>
       /\ \E i \in 1..Len(job_runs) :
            /\ job_runs[i].inv = FullScan.inv /\ job_runs[i].status = "success"
            /\ \A k \in (i + 1)..Len(job_runs) : job_runs[k].inv # FullScan.inv
       /\ ErrorEntries(FullScan.inv) = {}
       /\ AlertsOf(FullScan.inv) = {}

\* an invocation succeeded in its second attempt
C18_Witness ==
  /\ FullScan.pc = "returned"
  /\ FullScan.attempt = 1
  /\ FullScan.fails = 1

\* C19: every success or error entry is preceded by a running entry of the
\* same invocation
C19_RunningPrecedesTerminal ==
  \A i \in 1..Len(job_runs) :
    job_runs[i].status \in {"success", "error"} =>
      \E k \in 1..(i - 1) :
        job_runs[k].inv = job_runs[i].inv /\ job_runs[k].status = "running"


(***************************************************************************)
(* Outbound concurrency (crawler/runner.py lines 46-67 and 119-139)        *)
(***************************************************************************)
\* the item tasks between the entry of "async with self.semaphore" and the
\* end of their fetch call
FetchingTasks == {i \in DOMAIN tasks : tasks[i].pc = "fetch"}

\* the requests of the run that can be in flight: those of the item tasks,
\* and the one of run() or crawl_category_page, which is awaited while no
\* item task exists
InFlight ==
  Cardinality(FetchingTasks) + (IF runPc \in {"index", "page"} THEN 1 ELSE 0)

\* C21: within one run the number of HTTP requests in flight never exceeds
\* max_concurrency, which lies in 1..20, however many items a page lists
C21_InFlightBounded ==
  /\ max_concurrency \in 1..20
  /\ InFlight <= max_concurrency
  /\ runPc \in {"index", "page"} => FetchingTasks = {}

\* a page lists more items than max_concurrency: the semaphore is full and
\* a task is kept waiting
C21_Witness ==
  /\ Cardinality(FetchingTasks) = max_concurrency
  /\ \E i \in DOMAIN tasks : tasks[i].pc = "waiting"


(***************************************************************************)
(* The politeness gate of CrawlerClient.fetch (crawler/client.py lines     *)
(* 17-25 and 50-60).  Time is loop.time() in whole seconds.  Every fetch   *)
(* call of a run is made on a CrawlerClient of its own: runner.py lines 66 *)
(* and 120 and run() line 178 each open "async with CrawlerClient()".      *)
(***************************************************************************)
\* settings.request_interval, in seconds
request_interval == 1

MaxLoopTime == 6
MaxClients == 3

\* loop.time() is a monotonic clock with an arbitrary origin
LoopStart == {0, 2}

oldVars ==
  <<books, changes, now, opCount, storeVars, crawlVars, detectVars, ckVars,
    consVars, schedVars, jobVars>>

OldIdle ==
  /\ StoreIdle
  /\ CrawlIdle
  /\ DetectIdle
  /\ CkIdle
  /\ ConsIdle
  /\ SchedIdle
  /\ JobsIdle

notPoliteVars == <<oldVars, healthVars, serviceVars, rateVars>>

PoliteInit ==
  /\ OldIdle
  /\ HealthIdle
  /\ ServiceIdle
  /\ RateIdle
  /\ loop_time \in LoopStart
  /\ clients = [w \in Fetchers |-> NoClient]
  /\ dispatched = << >>
  /\ clientCount = 0

\* client.py line 36: wait_exponential(multiplier=1, min=4, max=10) after
\* the n-th attempt
RetryWait(n) ==
  LET e == 2 ^ (n - 1)
  IN IF e < 4 THEN 4 ELSE IF e > 10 THEN 10 ELSE e

\* runner.py lines 66, 120, 178 and client.py lines 17-25: the task opens a
\* CrawlerClient, whose last_request_time is 0.0 and whose lock is new
NewClient(w) ==
  /\ clients[w].pc = "none"
  /\ clientCount < MaxClients
  /\ clientCount' = clientCount + 1
  /\ clients' = [clients EXCEPT ![w] = [NoClient EXCEPT !.pc = "fetch"]]
  /\ UNCHANGED <<notPoliteVars, loop_time, dispatched>>

\* client.py lines 51-56: the client's own lock is taken and the delay that
\* its own last_request_time asks for is computed
FetchEnter(w) ==
  LET c == clients[w]
      time_since_last == loop_time - c.last_request_time
  IN /\ c.pc = "fetch"
     /\ ~c.locked
     /\ clients' = [clients EXCEPT
                      ![w].locked = TRUE,
                      ![w].pc = "sleep",
                      ![w].wake = IF time_since_last < request_interval
                                  THEN loop_time + (request_interval - time_since_last)
                                  ELSE loop_time]
     /\ UNCHANGED <<notPoliteVars, loop_time, dispatched, clientCount>>

\* client.py line 59: client.get is called once the sleep is over
ClientGet(w) ==
  /\ clients[w].pc = "sleep"
  /\ loop_time >= clients[w].wake
  /\ dispatched' = Append(dispatched, loop_time)
  /\ clients' = [clients EXCEPT ![w].pc = "get", ![w].attempt = @ + 1]
  /\ UNCHANGED <<notPoliteVars, loop_time, clientCount>>

\* client.py lines 59-79 and 33-37: a response sets last_request_time and
\* ends the call (returned, or HTTPStatusError raised), after which the
\* task closes its client; a network error or timeout is retried on the
\* same client after the wait, or ends the call with the last attempt
ClientResponse(w) ==
  LET c == clients[w]
  IN /\ c.pc = "get"
     /\ \/ clients' = [clients EXCEPT ![w] = NoClient]
        \/ /\ c.attempt < retry_attempts
           /\ clients' = [clients EXCEPT
                            ![w].locked = FALSE,
                            ![w].pc = "backoff",
                            ![w].wake = loop_time + RetryWait(c.attempt)]
     /\ UNCHANGED <<notPoliteVars, loop_time, dispatched, clientCount>>

\* tenacity calls fetch again when the wait is over
RetryAfterWait(w) ==
  /\ clients[w].pc = "backoff"
  /\ loop_time >= clients[w].wake
  /\ clients' = [clients EXCEPT ![w].pc = "fetch"]
  /\ UNCHANGED <<notPoliteVars, loop_time, dispatched, clientCount>>

LoopTick ==
  /\ loop_time < MaxLoopTime
  /\ loop_time' = loop_time + 1
  /\ UNCHANGED <<notPoliteVars, clients, dispatched, clientCount>>

PoliteNext ==
  \/ LoopTick
  \/ \E w \in Fetchers :
       \/ NewClient(w)
       \/ FetchEnter(w)
       \/ ClientGet(w)
       \/ ClientResponse(w)
       \/ RetryAfterWait(w)

SpecPolite == PoliteInit /\ [][PoliteNext]_vars

\* C22: between the dispatch of any two HTTP requests of a run at least
\* request_interval elapses, the gate being shared by all fetch calls
C22_PolitenessFloor ==
  \A i, j \in DOMAIN dispatched :
    i < j => dispatched[j] - dispatched[i] >= request_interval


(***************************************************************************)
(* Failures inside a crawl (crawler/runner.py lines 63-107, 109-153 and    *)
(* 186-217)                                                                *)
(***************************************************************************)
\* the ways an item fails: a status other than 200, an exception of fetch,
\* the retries exhausted, or an exception of the parsing, the validation or
\* the upsert (one except clause, lines 104-107)
ItemFailures == {"not_found", "always_503", "net_always", "invalid_page"}

\* C23: the failure of one item does not abort the run: the url is put into
\* the failed set, every other item, page and category is processed, and
\* the run returns statistics with at least one failed url and successful
\* false
C23_ItemFailureDoesNotAbort ==
  \A u \in ItemUrls(site) :
    (behav[u] \in ItemFailures /\ resume_url = None) =>
      /\ runPc # "raised"
      /\ (fetchCalls[u] = 1 /\ tasks = << >>) => u \in failed_urls
      /\ runPc = "done" =>
           /\ u \in failed_urls
           /\ stats.failed_urls >= 1
           /\ ~stats.successful
           /\ \A v \in ItemUrls(site) \ {u} : Stored(v) /\ v \notin failed_urls
           /\ \A q \in PageUrls(site) : fetchCalls[q] = 1
           /\ stats.total_books = Cardinality(ItemUrls(site)) - 1

\* a run in which an item failed has ended with its statistics
C23_Witness ==
  /\ runPc = "done"
  /\ \E u \in ItemUrls(site) : behav[u] = "net_always" /\ u \in failed_urls
  /\ \E v \in ItemUrls(site) : Stored(v)


\* the ways the fetch of a category page fails: a status other than 200, or
\* an exception leaving fetch
PageFailures == {"not_found", "always_503", "once_500", "net_always"}

\* the urls of the categories' first pages
CategoryUrls(st) ==
  {extract_categories(st)[k].url : k \in DOMAIN extract_categories(st)}

\* the pages whose items are gathered when page q fails: the first page of
\* every other category, and the pages that follow a page other than q
PagesGathered(st, q) ==
  {p \in PageUrls(st) \ {q} :
     \/ p \in CategoryUrls(st)
     \/ \E f \in CategoryUrls(st) \ {q} : get_next_page_url(st, f) = p}

ItemsListed(st, ps) ==
  UNION {{extract_books_from_list(st, p)[k] : k \in DOMAIN extract_books_from_list(st, p)} :
           p \in ps}

\* C24: when the fetch of a category page fails the category is left and
\* the run goes on with the next category; the items of earlier categories
\* and of earlier pages of the same category stay counted in the result
C24_PageFailureSkipsCategory ==
  \A q \in PageUrls(site) :
    (behav[q] \in PageFailures /\ resume_url = None) =>
      /\ runPc # "raised"
      /\ runPc = "done" =>
           /\ \A f \in CategoryUrls(site) : fetchCalls[f] = 1
           /\ \A v \in ItemsListed(site, PagesGathered(site, q)) : Stored(v)
           /\ stats.total_books = Cardinality(ItemsListed(site, PagesGathered(site, q)))
           /\ stats.failed_urls = 0

\* the second page of the first category failed: the items of its first
\* page and of the second category are counted
C24_Witness ==
  /\ runPc = "done"
  /\ site = "shared_links"
  /\ behav[103] = "always_503"
  /\ stats.total_books = 4


(***************************************************************************)
(* SchedulerJobs.health_check (scheduler/jobs.py lines 238-324)            *)
(***************************************************************************)
MaxHealthChecks == 2

notHealthVars == <<oldVars, politeVars, serviceVars, rateVars>>

\* the JobRun entries earlier invocations of the other jobs left
EarlierRuns ==
  { << >>,
    << JobRun("full_site_scan", "running", [inv |-> 1, attempt |-> 0]),
       JobRun("full_site_scan", "success", [inv |-> 1, attempt |-> 0]) >>,
    << JobRun("maintenance", "running", [inv |-> 1, attempt |-> 0]),
       JobRun("maintenance", "error", [inv |-> 1, attempt |-> 0]),
       JobRun("change_detection", "running", [inv |-> 2, attempt |-> 0]) >> }

\* the repository the scheduler works on: empty, or holding books
HealthInit ==
  /\ MoreIdle
  /\ \E prev \in {<< >>, <<1>>, <<1, 2>>} :
       /\ books = PreviousBooks(prev)
       /\ now = Len(prev) + 1
       /\ opCount = Len(prev)
  /\ changes = << >>
  /\ changing_field = "title"
  /\ unique_source_url = FALSE
  /\ upw = [w \in Upserters |-> IdleWorker]
  /\ CrawlIdle
  /\ DetectIdle
  /\ CkIdle
  /\ ConsIdle
  /\ SchedIdle
  /\ job_runs \in EarlierRuns
  /\ jobInv = [j \in JobTypes |-> IdleJob]
  /\ error_alerts = << >>
  /\ invCount = 0

\* get_recent_job_stats lines 273-300: the JobRun entries grouped by type
RunsOfType(runs, j) == {k \in DOMAIN runs : runs[k].scheduler_type = j}

LastOf(S) == CHOOSE k \in S : \A m \in S : m <= k

get_recent_job_stats(runs) ==
  { [id |-> j,
     total_runs |-> Cardinality(RunsOfType(runs, j)),
     successful_runs |->
       Cardinality({k \in RunsOfType(runs, j) : runs[k].status = "success"}),
     last_status |-> runs[LastOf(RunsOfType(runs, j))].status] :
      j \in {t \in JobTypes : RunsOfType(runs, t) # {}} }

\* the dict of the except branch, lines 265-271
ErrorResult == [NoResult EXCEPT !.status = "error"]

\* the trigger fires while the slot is free: scheduler.py lines 75-83
HealthFires ==
  /\ health.pc = "idle"
  /\ hcCount < MaxHealthChecks
  /\ hcCount' = hcCount + 1
  /\ health' = [IdleHealth EXCEPT !.pc = "metrics", !.attempts = 1]
  /\ UNCHANGED notHealthVars

\* line 247 and store.py lines 289-309: get_crawl_metrics counts the books
\* and divides by the count; a failed read and the division by zero both end
\* in the except branch of lines 265-271
HealthMetrics(ok) ==
  /\ health.pc = "metrics"
  /\ IF ok /\ Len(books) > 0
     THEN health' = [health EXCEPT !.pc = "recent_jobs",
                                   !.result.total_books = Len(books)]
     ELSE health' = [health EXCEPT !.pc = "returned", !.failed = ~ok,
                                   !.result = ErrorResult]
  /\ UNCHANGED <<notHealthVars, hcCount>>

\* line 250: get_recent_job_stats, or the except branch
HealthRecentJobs(ok) ==
  /\ health.pc = "recent_jobs"
  /\ IF ok
     THEN health' = [health EXCEPT !.pc = "database",
                                   !.result.recent_jobs = get_recent_job_stats(job_runs)]
     ELSE health' = [health EXCEPT !.pc = "returned", !.failed = TRUE,
                                   !.result = ErrorResult]
  /\ UNCHANGED <<notHealthVars, hcCount>>

\* lines 253-263 and 302-324: check_database_health catches the failure of
\* its own reads and returns status 'error'; health_check puts that dict
\* into database_status and returns overall_status 'healthy'
HealthDatabase(ok) ==
  /\ health.pc = "database"
  /\ health' = [health EXCEPT
                  !.pc = "returned",
                  !.failed = ~ok,
                  !.result.overall_status = "healthy",
                  !.result.database_status = IF ok THEN "connected" ELSE "error"]
  /\ UNCHANGED <<notHealthVars, hcCount>>

\* HealthReturn followed by a 'success' JobRun entry
HealthReturn_RecordsRun ==
  /\ health.pc = "returned"
  /\ health' = [health EXCEPT !.pc = "idle"]
  /\ job_runs' = Append(job_runs, [scheduler_type |-> "health_check", status |-> "success",
                                   inv |-> hcCount, attempt |-> 0])
  /\ UNCHANGED <<books, changes, now, opCount, storeVars, crawlVars, detectVars,
                 ckVars, consVars, schedVars, jobInv, error_alerts, invCount,
                 politeVars, serviceVars, rateVars, hcCount>>

\* the dict is returned to the scheduler, which dispatches EVENT_JOB_EXECUTED;
\* scheduler.py lines 85-106 write nothing when event.exception is None
HealthReturn ==
  /\ health.pc = "returned"
  /\ health' = [health EXCEPT !.pc = "idle"]
  /\ UNCHANGED <<notHealthVars, hcCount>>

HealthNext ==
  \/ HealthFires
  \/ \E ok \in BOOLEAN : HealthMetrics(ok)
  \/ \E ok \in BOOLEAN : HealthRecentJobs(ok)
  \/ \E ok \in BOOLEAN : HealthDatabase(ok)
  \/ HealthReturn

SpecHealth == HealthInit /\ [][HealthNext]_vars

\* the health check returned after one of its reads failed: the dict says
\* status 'error', or its database_status does (the read was one of
\* check_database_health)
ReportsError(r) == r.status = "error" \/ r.database_status = "error"

MaxJobStarts == 3

notServiceVars == <<oldVars, politeVars, healthVars, rateVars>>

\* the awaits of a job, in order: jobs.py lines 51-76 with the crawl's
\* upsert and set_checkpoint (runner.py lines 84-99), and lines 120-157
Steps(j) ==
  IF j = "full_site_scan"
  THEN <<"record_running", "upsert_book", "set_checkpoint", "record_success">>
  ELSE <<"record_running", "process_book_update", "record_success">>

\* run_scheduler line 133: the BookScheduler is constructed, not started
ServiceInit ==
  /\ OldIdle
  /\ PoliteIdle
  /\ HealthIdle
  /\ RateIdle
  /\ service = "init"
  /\ timerOn = FALSE
  /\ jobTasks = [j \in ServiceJobs |-> NoTask]
  /\ jobStarts = 0
  /\ shutdown_called = FALSE
  /\ db_init = "pending"

\* ServiceStart with the failure of init_scheduler_db logged and ignored
ServiceStart_IgnoresInitFailure(ok) ==
  /\ service = "init"
  /\ db_init' = IF ok THEN "ok" ELSE "failed"
  /\ service' = "started"
  /\ timerOn' = TRUE
  /\ UNCHANGED <<notServiceVars, jobTasks, jobStarts, shutdown_called>>

\* start, lines 108-120: init_scheduler_db (db_setup.py lines 133-156), then
\* scheduler.start().  When the initialisation raises, start raises,
\* run_scheduler calls shutdown (lines 141-144), which raises as the
\* scheduler is not running (lines 127-129), and run_scheduler raises
ServiceStart(ok) ==
  /\ service = "init"
  /\ db_init' = IF ok THEN "ok" ELSE "failed"
  /\ IF ok
     THEN service' = "started" /\ timerOn' = TRUE /\ UNCHANGED shutdown_called
     ELSE service' = "failed" /\ shutdown_called' = TRUE /\ UNCHANGED timerOn
  /\ UNCHANGED <<notServiceVars, jobTasks, jobStarts>>

\* the wake-up timer runs _process_jobs, which submits job j: the executor
\* creates its task
JobSubmitted(j) ==
  /\ timerOn
  /\ service \in {"started", "stopping"}
  /\ jobTasks[j].pc = 0
  /\ jobStarts < MaxJobStarts
  /\ jobStarts' = jobStarts + 1
  /\ jobTasks' = [jobTasks EXCEPT ![j] =
                    [NoTask EXCEPT !.pc = 1, !.after_signal = (service = "stopping")]]
  /\ UNCHANGED <<notServiceVars, db_init, service, timerOn, shutdown_called>>

\* the task's pending await completes; after the last one the job returns
JobTaskStep(j) ==
  LET t == jobTasks[j]
  IN /\ t.pc > 0
     /\ ~t.cancel
     /\ service \in {"started", "stopping"}
     /\ jobTasks' = [jobTasks EXCEPT
                       ![j].done = Append(@, Steps(j)[t.pc]),
                       ![j].pc = IF t.pc = Len(Steps(j)) THEN 0 ELSE t.pc + 1,
                       ![j].outcome = IF t.pc = Len(Steps(j)) THEN "completed" ELSE @]
     /\ UNCHANGED <<notServiceVars, db_init, service, timerOn, jobStarts, shutdown_called>>

\* CancelledError is raised at the task's pending await, whose operation
\* the repository has applied or not; no except Exception clause of the
\* jobs catches it, and the task ends
JobTaskCancelled(j, applied) ==
  LET t == jobTasks[j]
  IN /\ t.pc > 0
     /\ t.cancel
     /\ jobTasks' = [jobTasks EXCEPT
                       ![j].done = IF applied THEN Append(@, Steps(j)[t.pc]) ELSE @,
                       ![j].pc = 0,
                       ![j].outcome = "cancelled"]
     /\ UNCHANGED <<notServiceVars, db_init, service, timerOn, jobStarts, shutdown_called>>

\* every task that exists is cancelled
CancelAll(ts) == [j \in ServiceJobs |-> [ts[j] EXCEPT !.cancel = (ts[j].pc > 0)]]

\* lines 139-140: KeyboardInterrupt or SystemExit is raised inside
\* run_scheduler, which calls shutdown: the timer is stopped, the executor
\* cancels its pending tasks, and run_scheduler ends
ShutdownSignalCaught ==
  /\ service = "started"
  /\ service' = "stopping"
  /\ shutdown_called' = TRUE
  /\ timerOn' = FALSE
  /\ jobTasks' = CancelAll(jobTasks)
  /\ UNCHANGED <<notServiceVars, db_init, jobStarts>>

\* run_scheduler.py line 28: asyncio.run answers the interrupt by cancelling
\* the main task; CancelledError matches neither except clause of lines
\* 139-144, shutdown is not called, and asyncio.run cancels the tasks left
ShutdownSignalCancelsMain ==
  /\ service = "started"
  /\ service' = "stopping"
  /\ jobTasks' = CancelAll(jobTasks)
  /\ UNCHANGED <<notServiceVars, db_init, timerOn, jobStarts, shutdown_called>>

\* asyncio.run has gathered the tasks it cancelled and closes the loop; a
\* task created meanwhile is destroyed pending
ServiceReturns ==
  /\ service = "stopping"
  /\ \A j \in ServiceJobs : jobTasks[j].cancel => jobTasks[j].pc = 0
  /\ service' = "returned"
  /\ timerOn' = FALSE
  /\ jobTasks' = [j \in ServiceJobs |->
                    IF jobTasks[j].pc > 0
                    THEN [jobTasks[j] EXCEPT !.pc = 0, !.outcome = "destroyed"]
                    ELSE jobTasks[j]]
  /\ UNCHANGED <<notServiceVars, db_init, jobStarts, shutdown_called>>

ServiceNext ==
  \/ \E ok \in BOOLEAN : ServiceStart(ok)
  \/ ShutdownSignalCaught
  \/ ShutdownSignalCancelsMain
  \/ ServiceReturns
  \/ \E j \in ServiceJobs :
       \/ JobSubmitted(j)
       \/ JobTaskStep(j)
       \/ \E applied \in BOOLEAN : JobTaskCancelled(j, applied)

SpecService == ServiceInit /\ [][ServiceNext]_vars

\* C26: after the shutdown signal no firing starts a job, every job task in
\* flight runs to completion, and only then the service returns
C26_CleanShutdown ==
  /\ \A j \in ServiceJobs :
       /\ ~jobTasks[j].after_signal
       /\ jobTasks[j].outcome \notin {"cancelled", "destroyed"}
  /\ service = "returned" => \A j \in ServiceJobs : jobTasks[j].pc = 0

\* C27: when the repository cannot be initialised at startup, startup ends
\* with an error, the scheduler is never started and no job is fired
C27_StartupAbortsOnRepositoryFailure ==
  db_init = "failed" =>
    /\ service = "failed"
    /\ ~timerOn
    /\ jobStarts = 0
    /\ \A j \in ServiceJobs : jobTasks[j] = NoTask

\* the initialisation failed and run_scheduler has raised
C27_Witness ==
  /\ db_init = "failed"
  /\ service = "failed"
  /\ shutdown_called


\* C28: a failed invocation of any mutating job was retried with backoff up
\* to the ceiling, and ended with an error JobRun entry and a critical
\* notification
C28_EveryJobRetriedAndEscalated ==
  \A j \in JobTypes :
    (jobInv[j].pc = "raised" /\ jobInv[j].body_fails >= 1
       /\ ErrorEntries(jobInv[j].inv) # {}) =>
      /\ jobInv[j].fails = max_retries + 1
      /\ jobInv[j].sleeps = <<1, 2, 4>>
      /\ \E i \in AlertsOf(jobInv[j].inv) : error_alerts[i].critical


(***************************************************************************)
(* Uniqueness of source_url (crawler/store.py lines 24-35 and 99-136)      *)
(***************************************************************************)
\* C29: after any interleaving of upserts, two concurrent upserts of one new
\* source_url included, the books collection holds at most one document per
\* source_url
C29_SourceUrlUnique ==
  \A u \in StoreUrls : Cardinality(MatchingDocs(books, u)) <= 1


(***************************************************************************)
(* Inbound rate limiting (api/middleware/rate_limiter.py).  The bodies     *)
(* under RateLimitStore._lock never suspend, so the lock is always free    *)
(* when it is asked for, and dispatch runs from its entry to call_next     *)
(* (lines 186-257) without giving up the event loop.                       *)
(***************************************************************************)
\* RateLimitMiddleware.window_seconds
window_seconds == 3600

\* the rate_limit_per_hour the middleware is constructed with
rate_limit == 2

\* time advances in steps of 20 minutes
TickSeconds == 20 * 60

RateMaxTicks == 4
MaxRateRequests == 4

notRateVars == <<oldVars, politeVars, healthVars, serviceVars>>

RateInit ==
  /\ OldIdle
  /\ PoliteIdle
  /\ HealthIdle
  /\ ServiceIdle
  /\ utcnow = 0
  /\ rl_requests = [id \in KeyIdentifiers |-> << >>]
  /\ rl_log = << >>
  /\ rl_handling = 0

\* lines 72-73 and 92-93: while requests and requests[0] < cutoff: popleft()
RECURSIVE PopExpired(_, _)
PopExpired(q, cutoff) ==
  IF q # << >> /\ Head(q) < cutoff THEN PopExpired(Tail(q), cutoff) ELSE q

\* the test with a count equal to the limit let through
Exceeded_Strict(current_count) ==
  current_count > rate_limit

\* line 215: if current_count >= self.rate_limit
Exceeded(current_count) ==
  current_count >= rate_limit

\* dispatch lines 186-257 for a request that carries API key k on a path
\* that is not exempt: get_request_count (lines 63-75), then the 429 answer,
\* or record_request (lines 44-50) and the entry of call_next
RateDispatch(k) ==
  LET id == hash_api_key(k)
      q == PopExpired(rl_requests[id], utcnow - window_seconds)
      current_count == Len(q)
  IN /\ Len(rl_log) < MaxRateRequests
     /\ IF Exceeded(current_count)
        THEN /\ rl_requests' = [rl_requests EXCEPT ![id] = q]
             /\ rl_log' = Append(rl_log, [key |-> k, time |-> utcnow,
                                          count |-> current_count,
                                          status |-> 429, call_next |-> FALSE])
             /\ UNCHANGED rl_handling
        ELSE /\ rl_requests' = [rl_requests EXCEPT ![id] = Append(q, utcnow)]
             /\ rl_log' = Append(rl_log, [key |-> k, time |-> utcnow,
                                          count |-> current_count,
                                          status |-> 200, call_next |-> TRUE])
             /\ rl_handling' = rl_handling + 1
     /\ UNCHANGED <<notRateVars, utcnow>>

\* lines 257-267: call_next has returned, the headers are set
RateRespond ==
  /\ rl_handling > 0
  /\ rl_handling' = rl_handling - 1
  /\ UNCHANGED <<notRateVars, utcnow, rl_requests, rl_log>>

\* cleanup_expired(3600), lines 77-104, run by the cleanup task
RateCleanup ==
  /\ \E id \in KeyIdentifiers :
       rl_requests[id] # PopExpired(rl_requests[id], utcnow - window_seconds)
  /\ rl_requests' = [id \in KeyIdentifiers |->
                       PopExpired(rl_requests[id], utcnow - window_seconds)]
  /\ UNCHANGED <<notRateVars, utcnow, rl_log, rl_handling>>

RateTick ==
  /\ utcnow < RateMaxTicks * TickSeconds
  /\ utcnow' = utcnow + TickSeconds
  /\ UNCHANGED <<notRateVars, rl_requests, rl_log, rl_handling>>

RateNext ==
  \/ RateTick
  \/ RateRespond
  \/ RateCleanup
  \/ \E k \in ApiKeys : RateDispatch(k)

SpecRate == RateInit /\ [][RateNext]_vars

\* the dispatches of key k that reached the next handler
Admitted(k) ==
  {i \in DOMAIN rl_log : rl_log[i].key = k /\ rl_log[i].call_next}

\* the times at which requests of key k were admitted, in order
RECURSIVE AdmittedTimes(_, _)
AdmittedTimes(k, n) ==
  IF n = 0 THEN << >>
  ELSE IF n \in Admitted(k) THEN Append(AdmittedTimes(k, n - 1), rl_log[n].time)
  ELSE AdmittedTimes(k, n - 1)

IsSuffix(q, sq) ==
  Len(q) <= Len(sq) /\ q = SubSeq(sq, Len(sq) - Len(q) + 1, Len(sq))

\* C30: per API key the requests admitted in any window of one hour never
\* exceed rate_limit, also while other requests are being handled; a request
\* arriving at a count of rate_limit or more is answered 429, is not
\* recorded and does not reach the next handler; the count is that of the
\* admitted requests not older than the window
C30_SlidingWindowLimit ==
  /\ \A k \in ApiKeys : \A i \in Admitted(k) :
       Cardinality({j \in Admitted(k) :
                      /\ rl_log[j].time >= rl_log[i].time
                      /\ rl_log[j].time <= rl_log[i].time + window_seconds})
         <= rate_limit
  /\ \A i \in DOMAIN rl_log :
       /\ rl_log[i].count =
            Cardinality({j \in Admitted(rl_log[i].key) :
                           j < i /\ rl_log[j].time >= rl_log[i].time - window_seconds})
       /\ (rl_log[i].count >= rate_limit) <=> (rl_log[i].status = 429)
       /\ rl_log[i].status = 429 <=> ~rl_log[i].call_next
  /\ \A k \in ApiKeys :
       IsSuffix(rl_requests[hash_api_key(k)], AdmittedTimes(k, Len(rl_log)))

\* a key was refused while two of its requests were being handled, and was
\* admitted again when they had left the window
C30_Witness ==
  \E i, j \in DOMAIN rl_log :
    /\ i < j
    /\ rl_log[i].key = rl_log[j].key
    /\ rl_log[i].status = 429
    /\ rl_log[j].status = 200
    /\ rl_handling >= 2


(***************************************************************************)
(* The checkpoint cadence of crawl_book_page (crawler/runner.py lines      *)
(* 89-102)                                                                 *)
(***************************************************************************)
\* the workers that called set_checkpoint and have not returned from it
PendingCheckpoints == {i \in DOMAIN tasks : tasks[i].pc = "checkpoint"}

\* the workers whose upsert returned and whose success is not counted yet
UncountedSuccesses == {i \in DOMAIN tasks : tasks[i].pc = "upserted"}

\* C31: a run with checkpoint interval N that counted s successful item
\* upserts has issued exactly floor(s / N) checkpoint writes; the k-th is
\* issued by the worker whose success brought the counter to k * N and
\* carries the url that worker upserted; every upsert of the run is counted
\* once, and every issued write is pending or has ended
C31_CheckpointCadence ==
  /\ Len(ck_issued) = books_processed \div checkpoint_interval
  /\ \A k \in DOMAIN ck_issued :
       /\ ck_issued[k].count = k * checkpoint_interval
       /\ Stored(ck_issued[k].url)
       /\ fetchCalls[ck_issued[k].url] = 1
       /\ \A j \in DOMAIN ck_issued : ck_issued[j].url = ck_issued[k].url => j = k
  /\ \A i \in PendingCheckpoints :
       \E k \in DOMAIN ck_issued : ck_issued[k].url = tasks[i].url
  /\ Len(ck_written) + Cardinality(PendingCheckpoints) = Len(ck_issued)
  /\ \A k \in DOMAIN ck_written :
       \E j \in DOMAIN ck_issued :
         /\ ck_issued[j].url = ck_written[k].url
         /\ ck_issued[j].count = ck_written[k].count
  /\ resume_url = None =>
       books_processed + Cardinality(UncountedSuccesses) = opCount

\* a run that counted six successes with interval two has ended: three
\* checkpoint writes were made
C31_Witness ==
  /\ runPc = "done"
  /\ checkpoint_interval = 2
  /\ books_processed = 6
  /\ Len(ck_written) = 3


\* C32: checkpoint writes take effect in run order: a write takes effect
\* after the upsert of the success that triggered it, the persisted value
\* never goes back from the url of a later-counted success to the url of an
\* earlier-counted one, and at the end of a run whose writes all succeeded
\* the stored checkpoint is the url of the last success counted at a
\* multiple of the interval
C32_CheckpointsInRunOrder ==
  (\A u \in AllUrls : behav[u] # "checkpoint_error") =>
    /\ \A k \in DOMAIN ck_written : Stored(ck_written[k].url)
    /\ \A j, k \in DOMAIN ck_written :
         j < k => ck_written[j].count < ck_written[k].count
    /\ (runPc = "done" /\ ck_issued # << >>) =>
         checkpoint = ck_issued[Len(ck_issued)].url


(***************************************************************************)
(* Pagination: crawl_category_page lines 126-149 and run() lines 186-204   *)
(***************************************************************************)
\* C33: a category page or the index is requested only while no item task
\* of an earlier page exists; the run moves to the next page or the next
\* category only when every item task of the page has finished, and while
\* it is between pages no item task is left and no semaphore slot is held
C33_PagesAwaitItems ==
  /\ [][(\E p \in PageUrls(site) \cup {IndexUrl} : requests'[p] # requests[p])
          => tasks = << >>]_vars
  /\ [][(curPage' # curPage \/ catIdx' # catIdx)
          => \A i \in DOMAIN tasks : tasks[i].pc = "finished"]_vars
  /\ [](runPc \in {"index", "category", "page"} => (tasks = << >> /\ sem = 0))

\* the second page of the first category and the page of the second one
\* were requested after items of the first page were fetched
C33_Witness ==
  /\ site = "shared_links"
  /\ requests[103] >= 1
  /\ requests[102] >= 1
  /\ fetchCalls[1] = 1
  /\ fetchCalls[3] = 1


\* C37: the failed set is a subset of the seen set, and in a run that
\* started on an empty repository no url of the failed set has a stored
\* record: a url counted as failed was never stored by the run, also when
\* the checkpoint write after its upsert failed
C37_FailedNeverStored ==
  /\ failed_urls \subseteq seen_urls
  /\ resume_url = None => \A u \in failed_urls : ~Stored(u)


(***************************************************************************)
(* mark_for_recrawl (crawler/store.py lines 369-379) beside upsert_book    *)
(***************************************************************************)
\* the value 'pending_recrawl' of the status field; 'ok' is 1
PendingRecrawl == 1 + 1

\* update_many({'crawl_timestamp': {'$lt': older_than}},
\*             {'$set': {'status': 'pending_recrawl'}})
MarkedForRecrawl(bs, older_than) ==
  [i \in DOMAIN bs |->
     IF bs[i].crawl_timestamp < older_than
     THEN [bs[i] EXCEPT !["status"] = PendingRecrawl]
     ELSE bs[i]]

\* mark_for_recrawl: one update_many on the books collection, nothing else
MarkForRecrawl(older_than) ==
  /\ books' = MarkedForRecrawl(books, older_than)
  /\ UNCHANGED <<changes, now, opCount, storeVars, crawlVars, detectVars,
                 otherVars>>

\* the cutoffs mark_for_recrawl is called with: every time of the run, and
\* one past the last
RecrawlCutoffs == 1..(MaxUpserts + 2)

RecrawlNext ==
  \/ StoreNext
  \/ \E t \in RecrawlCutoffs : MarkForRecrawl(t)

SpecRecrawl == StoreInit /\ [][RecrawlNext]_vars

\* C34: a stored record is changed only by an upsert that has computed a
\* diff and goes on to write it: in the step that changes the record the
\* upsert is left at the point where it records the change, and an upsert
\* that has returned after changing a record has written a change record
\* with its diff for that record
C34_MutationOnlyWithDiff ==
  /\ [][\A i \in DOMAIN books :
          books'[i] # books[i] =>
            \E w \in Upserters :
              /\ upw[w].pc = "found"
              /\ upw'[w].pc = "record"
              /\ upw'[w].existing._id = books[i]._id
              /\ DOMAIN upw'[w].chg # {}]_vars
  /\ [](\A w \in Upserters :
          (upw[w].pc = "done" /\ DOMAIN upw[w].chg # {}) =>
            \E k \in DOMAIN changes :
              /\ changes[k].book_id = upw[w].existing._id
              /\ changes[k].changes = upw[w].chg)


(***************************************************************************)
(* consolidate_changes called again (crawler/store.py lines 445-478).  The *)
(* cutoff is the one consolidate_old_changes computes, the time of the     *)
(* call less days_threshold: it is never later than the call.              *)
(***************************************************************************)
\* the number of documents of chs equal to d
Copies(chs, d) == Cardinality({i \in 1..Len(chs) : chs[i] = d})

\* C35: consolidate_changes(cutoff) leaves every change entry with a
\* timestamp >= cutoff as it was, and a call with the cutoff of the call
\* before it finds no group: it deletes nothing, inserts nothing, does not
\* consolidate the summaries the first call inserted, and returns 0
C35_ConsolidationFrameAndRepeat ==
  cons.pc # "idle" =>
    /\ \A j \in 1..Len(cons.before) :
         cons.before[j].timestamp >= cons.older_than =>
           Copies(changes, cons.before[j]) >= Copies(cons.before, cons.before[j])
    /\ cons.previous = cons.older_than =>
         /\ cons.groups = << >>
         /\ cons.consolidated = 0
         /\ cons.pc \in {"loop", "returned"}
         /\ SubSeq(changes, 1, Len(cons.before)) = cons.before

\* a call that returned a count of 1 or more was followed by a call with
\* the same cutoff, which has returned; a change entry not older than the
\* cutoff was in the collection
C35_Witness ==
  /\ cons.pc = "returned"
  /\ cons.previous = cons.older_than
  /\ cons.previous_count >= 1
  /\ \E j \in 1..Len(cons.before) :
       /\ cons.before[j].change_type = "update"
       /\ cons.before[j].timestamp >= cons.older_than

RECURSIVE SumChangeCount(_, _)
SumChangeCount(chs, b) ==
  IF chs = << >> THEN 0
  ELSE (IF Head(chs).book_id = b /\ Head(chs).change_type = "consolidated"
        THEN Head(chs).summary.change_count ELSE 0) + SumChangeCount(Tail(chs), b)

\* the changes of record b the collection accounts for, those recorded at
\* the cutoff or later left out: its ChangeRecords older than the cutoff
\* and the change counts of its summaries
AccountedChanges(chs, b, older_than) ==
  Cardinality({i \in OlderThan(chs, b, older_than) : chs[i].change_type = "update"})
    + SumChangeCount(chs, b)

\* C36: consolidation preserves the number of changes of every record: the
\* ChangeRecords older than the cutoff plus the sum of the change counts of
\* the summaries is the same before a call and whenever the call is between
\* two groups or has returned, also when the cutoff is past the timestamp
\* of a summary of an earlier call
C36_ConsolidationPreservesCount ==
  cons.pc \in {"loop", "returned"} =>
    \A b \in ConsBooks :
      AccountedChanges(changes, b, cons.older_than)
        = AccountedChanges(cons.before, b, cons.older_than)

\* the same, for calls that find no summary older than the cutoff
FirstConsolidationPreservesCount ==
  (\A j \in 1..Len(cons.before) :
     cons.before[j].timestamp < cons.older_than => cons.before[j].change_type = "update")
  => C36_ConsolidationPreservesCount


(***************************************************************************)
(* Termination of run() on sites whose next-page links form a cycle        *)
(* (crawler/runner.py lines 109-153, crawler/parsers.py lines 52-71).      *)
(* Every fetch returns and every task is scheduled: the steps of the run   *)
(* are weakly fair.                                                        *)
(***************************************************************************)
CycleInit ==
  /\ OtherIdle
  /\ StoreIdle
  /\ DetectIdle
  /\ checkpoint = None
  /\ resume_url = None
  /\ ck_issued = << >>
  /\ ck_written = << >>
  /\ depth = 0
  /\ site \in CyclicSites \cup {"shared_links"}
  /\ behav \in SiteBehaviours(site)
  /\ \E c \in Configs :
       /\ max_concurrency = c.max_concurrency
       /\ checkpoint_interval = c.checkpoint_interval
  /\ seen_urls = {}
  /\ failed_urls = {}
  /\ books_processed = 0
  /\ sem = 0
  /\ tasks = << >>
  /\ runPc = "start"
  /\ runAttempt = 0
  /\ catIdx = 0
  /\ curPage = 0
  /\ all_book_ids = << >>
  /\ requests = [u \in AllUrls |-> 0]
  /\ fetchCalls = [u \in AllUrls |-> 0]
  /\ stats = NoStats

SpecCycle == CycleInit /\ [][CrawlNext]_vars /\ WF_vars(CrawlNext)

\* C38: a run over a finite site ends, by returning its statistics or by
\* raising, whenever every fetch returns, also when the next-page links of
\* a category form a cycle or point back to the page itself
C38_RunTerminates == <>(runPc \in {"done", "raised"})

\* a run over a site with a cycle has returned its statistics after the
\* page the cycle comes back to was fetched again
C38_Witness ==
  /\ site \in CyclicSites
  /\ runPc = "done"
  /\ fetchCalls[101] >= 2
  /\ stats # NoStats


(***************************************************************************)
(* record_scheduler_run (scheduler/db_setup.py lines 112-131) inserts the  *)
(* JobRun entries into the checkpoints collection, beside the crawl's      *)
(* checkpoints and under the index of init_indexes (crawler/store.py lines *)
(* 42-47)                                                                  *)
(***************************************************************************)
MaxRunCalls == 2

JobStatuses == {"running", "success", "error"}

\* the key of a document without the field checkpoint_type in the index on
\* checkpoint_type: null
NullType == "null"

\* the document of lines 126-131; it has no checkpoint_type
JobRunDoc(job_type, status, t) ==
  [checkpoint_type |-> NullType, value |-> None, timestamp |-> t,
   scheduler_type |-> job_type, status |-> status]

\* insert_one of lines 126-131: with the unique index a second document
\* with the key null is rejected with DuplicateKeyError, which
\* record_scheduler_run lets through to its caller
RecordSchedulerRun(job_type, status) ==
  /\ Len(run_calls) < MaxRunCalls
  /\ IF unique_checkpoint_type /\ MatchingCheckpoints(checkpoints, NullType) # {}
     THEN /\ run_calls' = Append(run_calls, [scheduler_type |-> job_type,
                                  status |-> status, error |-> "DuplicateKeyError"])
          /\ UNCHANGED checkpoints
     ELSE /\ run_calls' = Append(run_calls, [scheduler_type |-> job_type,
                                  status |-> status, error |-> "none"])
          /\ checkpoints' = Append(checkpoints,
                                   JobRunDoc(job_type, status, Len(run_calls) + 1))
  /\ UNCHANGED <<notCkVars, unique_checkpoint_type, ckw, ckWritten, ckCount, ckRead>>

\* the scheduler process: init_scheduler_db has run init_indexes
JobRunsInit == CheckpointInit /\ unique_checkpoint_type

\* the full_site_scan job's crawl writes checkpoints while the job wrappers
\* record their runs
JobRunsNext ==
  \/ \E v \in CheckpointValues, t \in CheckpointTypes : SetCheckpointCall(1, v, t)
  \/ SetCheckpointFind(1)
  \/ SetCheckpointInsert(1)
  \/ \E j \in JobTypes, st \in JobStatuses : RecordSchedulerRun(j, st)

SpecJobRuns == JobRunsInit /\ [][JobRunsNext]_vars

\* C39: with the unique index on checkpoint_type in place, no call of
\* record_scheduler_run fails with a uniqueness conflict, whatever the
\* number, the job types and the statuses of the entries and whatever
\* checkpoints the crawl wrote
C39_JobRunsNeverConflict ==
  unique_checkpoint_type =>
    \A k \in 1..Len(run_calls) : run_calls[k].error = "none"


(***************************************************************************)
(* The terminal JobRun entries of an invocation (scheduler/jobs.py lines   *)
(* 78-101, 159-171, 224-236).  The listener _handle_job_event              *)
(* (scheduler/scheduler.py lines 85-106) is a coroutine function handed to *)
(* add_listener (lines 30-34): the scheduler calls it without awaiting the *)
(* coroutine, so its record_scheduler_run call is never made.              *)
(***************************************************************************)
TerminalEntries(inv) ==
  {i \in 1..Len(job_runs) :
     job_runs[i].inv = inv /\ job_runs[i].status \in {"success", "error"}}

\* C40: every invocation of a scheduled job that has ended has exactly one
\* terminal JobRun entry, one success or one error, never both and never
\* two
C40_ExactlyOneTerminalEntry ==
  \A j \in JobTypes :
    Over(jobInv[j]) => Cardinality(TerminalEntries(jobInv[j].inv)) = 1

\* no invocation has two terminal entries: the wrapper writes its error
\* entry once and the listener writes none
AtMostOneTerminalEntry ==
  \A j \in JobTypes : Cardinality(TerminalEntries(jobInv[j].inv)) <= 1

====
